---- MODULE Spec2Model ----
(***************************************************************************)
(* A model of V2exParser (src/src/index.js): the batch operations          *)
(* parseMultipleUsers and parseMultiplePages, the post operations          *)
(* parsePostPage and parseMultiPagePost, the base URL setting, and the     *)
(* address recognizer extractSolanaAddressesWithBoundary.                  *)
(*                                                                         *)
(* JavaScript runs an invocation to its next await without preemption, so  *)
(* an action is the code between two awaits (or a shorter piece of it).    *)
(* The transport (axios.get) and the DOM queries (cheerio) are the         *)
(* environment: their answers are inputs.  Timestamps and console output   *)
(* are left out.                                                           *)
(***************************************************************************)
EXTENDS Integers, Sequences, FiniteSets, TLC

VARIABLES baseUrl, inv, post, scan

vars == <<baseUrl, inv, post, scan>>

(***************************************************************************)
(* Bounds of the model.                                                    *)
(***************************************************************************)
MaxTargets == 2
MaxRetry == 2
MaxReplies == 3

(***************************************************************************)
(* Input domains and helpers.                                              *)
(***************************************************************************)
Invs == {"A", "B"}

Usernames == {"Livid", "acros"}

SeqsUpTo(S, n) == UNION {[1..k -> S] : k \in 0..n}

NoUrl == [base |-> "", path |-> "", id |-> ""]

NoError == [msg |-> "", attempt |-> 0, wrapped |-> FALSE]

CallbackError == [msg |-> "callback", attempt |-> 0, wrapped |-> FALSE]

\* constructor: this.baseUrl = options.baseUrl || 'https://v2ex.com'
DefaultBaseUrl == "https://v2ex.com"

\* defaultOptions.delay of parseMultipleUsers
DefaultDelay == 1000

DelayChoices == {0, DefaultDelay}

\* What the caller passes as options.onProgress: nothing, or a function that
\* returns a value (which one is part of the input); "throws" stands for a
\* function that may throw.
QuietCallbacks == {"null", "returnsUndefined", "returnsFalse"}

\* The URLs given to parseMultiplePages: a profile, a thread, anything else.
PageUrls == {[base |-> DefaultBaseUrl, path |-> p, id |-> "1"] : p \in {"member", "t", "about"}}

(***************************************************************************)
(* One invocation of a batch operation.                                    *)
(*   transport[k] is the environment's behaviour for the k-th target: the  *)
(*   number of attempts on it that fail before one succeeds (attempts      *)
(*   after a success are never made, so this covers every pattern).        *)
(*   options are the finalOptions, the defaults merged with the caller's.  *)
(*   trace is a history of what the invocation did: progress events,       *)
(*   fetches issued and how they ended, waits started.                     *)
(***************************************************************************)
Idle == [op |-> "idle", targets |-> <<>>,
         options |-> [retryCount |-> 0, delay |-> 0, onProgress |-> "null"],
         transport |-> <<>>, i |-> 0, retryAttempts |-> 0, success |-> FALSE,
         results |-> <<>>, pc |-> "idle", inflight |-> NoUrl, exc |-> NoError,
         trace |-> <<>>, returned |-> <<>>]

NewCall(op, targets, options, transport) ==
    [Idle EXCEPT !.op = op, !.targets = targets, !.options = options,
                 !.transport = transport, !.pc = "loop"]

Entry(kind, tag, index, url, info) ==
    [kind |-> kind, tag |-> tag, index |-> index, url |-> url, info |-> info]

Record(s, kind, tag, url) ==
    [s EXCEPT !.trace = Append(@, Entry(kind, tag, s.i + 1, url, <<>>))]

IsFetchOf(e, index) == e.kind = "fetch" /\ e.index = index

\* The number of fetches the invocation has issued for its target at index.
AttemptsOn(s, index) ==
    LET Test(e) == IsFetchOf(e, index) IN Len(SelectSeq(s.trace, Test))

\* Whether the fetch in flight (the latest attempt on the current target) succeeds.
TransportOk(s) == AttemptsOn(s, s.i + 1) > s.transport[s.i + 1]

\* The recognizer at work: the text it is given and what it returned (one call of
\* extractSolanaAddressesWithBoundary or of extractSolanaDomainsFromText), or
\* a page text with the address the page's script declares (<<>> for none) and
\* what the two call sites made of it, or an HTML fragment with what the
\* normalization made of it and of its own result. profile is the result of
\* extractSolanaAddress and reply that of extractSolanaAddressesFromText, with
\* <<>> for null.
ScanIdle == [pc |-> "idle", text |-> <<>>, addresses |-> <<>>, domains |-> <<>>,
             script |-> <<>>,
             profile |-> [done |-> FALSE, solanaAddress |-> <<>>, solanaDomain |-> <<>>],
             reply |-> [done |-> FALSE, solanaAddresses |-> <<>>, solanaDomains |-> <<>>],
             normalized |-> <<>>, again |-> <<>>]

ThrowChoices(s) == IF s.options.onProgress = "throws" THEN BOOLEAN ELSE {FALSE}

(***************************************************************************)
(* parseV2exPage, once its fetch has resolved.                             *)
(***************************************************************************)
Wrap(error) == [error EXCEPT !.wrapped = TRUE]

ParseV2exPage(url, ok, attempt) ==
    IF ~ok
    THEN [ok |-> FALSE, error |-> Wrap([msg |-> "transport", attempt |-> attempt, wrapped |-> FALSE])]
    ELSE IF url.path = "member"
    THEN [ok |-> TRUE, data |-> [type |-> "user_info", url |-> url]]
    ELSE IF url.path = "t"
    THEN [ok |-> TRUE, data |-> [type |-> "post", url |-> url]]
    ELSE [ok |-> FALSE, error |-> Wrap([msg |-> "unsupported", attempt |-> attempt, wrapped |-> FALSE])]

\* A variant that builds the URL from the default base URL, whatever was set.
UserUrl_DefaultBase(base, username) ==
    [base |-> DefaultBaseUrl, path |-> "member", id |-> username]

\* parseUserInfo: the URL is built from this.baseUrl at the time of the call.
UserUrl(base, username) == [base |-> base, path |-> "member", id |-> username]

(***************************************************************************)
(* parseMultipleUsers                                                      *)
(***************************************************************************)
HasCallback(s) == s.options.onProgress # "null"

\* A variant that lets a callback returning false cancel the batch.
OnProgress_HonoursFalse(s, status, index, info, throws) ==
    IF s.options.onProgress = "null" THEN s
    ELSE LET t == [s EXCEPT !.trace = Append(@, Entry("event", status, index, NoUrl, info))]
         IN IF throws \/ s.options.onProgress = "returnsFalse"
            THEN [t EXCEPT !.exc = CallbackError] ELSE t

\* finalOptions.onProgress({..., status, ...}): the value it returns is dropped.
OnProgress(s, status, index, info, throws) ==
    IF ~HasCallback(s) THEN s
    ELSE LET t == [s EXCEPT !.trace = Append(@, Entry("event", status, index, NoUrl, info))]
         IN IF throws THEN [t EXCEPT !.exc = CallbackError] ELSE t

Raised(s) == s.exc # NoError

Reject(s) == [s EXCEPT !.pc = "rejected", !.inflight = NoUrl]

\* A variant that stores the retry counter in the success outcome too.
SuccessOutcome_WithRetryAttempts(s, data) ==
    [username |-> s.targets[s.i + 1], success |-> TRUE, data |-> data,
     retryAttempts |-> s.retryAttempts]

SuccessOutcome(s, data) == [username |-> s.targets[s.i + 1], success |-> TRUE, data |-> data]

FailureOutcome(s, error) ==
    [username |-> s.targets[s.i + 1], success |-> FALSE, error |-> error,
     retryAttempts |-> s.retryAttempts]

\* for (...; i++): the next iteration.
ForNext(s) == [s EXCEPT !.i = @ + 1, !.pc = "loop"]

\* A variant that also waits after the last target.
AfterWhile_WaitsAfterLast(s) ==
    IF s.i < Len(s.targets) /\ s.options.delay > 0
    THEN [Record(s, "wait", "delay", NoUrl) EXCEPT !.pc = "delay"]
    ELSE ForNext(s)

\* After the while loop: the pacing wait between targets.
AfterWhile(s) ==
    IF s.i < Len(s.targets) - 1 /\ s.options.delay > 0
    THEN [Record(s, "wait", "delay", NoUrl) EXCEPT !.pc = "delay"]
    ELSE ForNext(s)

\* A variant whose loop condition allows one attempt too many.
WhileHead_OffByOne(s, base) ==
    IF s.retryAttempts <= s.options.retryCount + 1 /\ ~s.success
    THEN LET url == [base |-> base, path |-> "member", id |-> s.targets[s.i + 1]]
         IN [Record(s, "fetch", "get", url) EXCEPT !.pc = "fetch", !.inflight = url]
    ELSE AfterWhile(s)

\* The head of the while loop: another attempt, or out of the loop.
WhileHead(s, base) ==
    IF s.retryAttempts <= s.options.retryCount /\ ~s.success
    THEN LET url == UserUrl(base, s.targets[s.i + 1])
         IN [Record(s, "fetch", "get", url) EXCEPT !.pc = "fetch", !.inflight = url]
    ELSE AfterWhile(s)

\* A variant that forgets the 'success' event.
TryBody_SilentSuccess(s, data, throws) ==
    [s EXCEPT !.results = Append(@, SuccessOutcome(s, data)), !.success = TRUE]

\* The try block after parseUserInfo resolved.
TryBody(s, data, throws) ==
    LET pushed == [s EXCEPT !.results = Append(@, SuccessOutcome(s, data)), !.success = TRUE]
    IN OnProgress(pushed, "success", s.i + 1, <<>>, throws)

\* A variant that gives a target up at its first failure while retries are left,
\* and moves on to the next target without an outcome.
CatchBlock_MovesOnAtRetry(s, error, base, throws) ==
    LET c == [s EXCEPT !.exc = NoError, !.retryAttempts = @ + 1]
    IN IF c.retryAttempts <= c.options.retryCount
       THEN LET e == OnProgress(c, "retry", c.i + 1, <<>>, throws)
            IN IF Raised(e) THEN Reject(e) ELSE AfterWhile(e)
       ELSE LET e == OnProgress(c, "error", c.i + 1, <<>>, throws)
            IN IF Raised(e) THEN Reject(e)
               ELSE WhileHead([e EXCEPT !.results = Append(@, FailureOutcome(e, error))], base)

\* A variant that reports the terminal failure but records no outcome for it.
CatchBlock_DropsOutcome(s, error, base, throws) ==
    LET c == [s EXCEPT !.exc = NoError, !.retryAttempts = @ + 1]
    IN IF c.retryAttempts <= c.options.retryCount
       THEN LET e == OnProgress(c, "retry", c.i + 1, <<>>, throws)
            IN IF Raised(e) THEN Reject(e)
               ELSE [Record(e, "wait", "cooldown", NoUrl) EXCEPT !.pc = "cooldown"]
       ELSE LET e == OnProgress(c, "error", c.i + 1, <<>>, throws)
            IN IF Raised(e) THEN Reject(e) ELSE WhileHead(e, base)

\* The catch block; error is what was thrown in the try block.
CatchBlock(s, error, base, throws) ==
    LET c == [s EXCEPT !.exc = NoError, !.retryAttempts = @ + 1]
    IN IF c.retryAttempts <= c.options.retryCount
       THEN LET e == OnProgress(c, "retry", c.i + 1, <<>>, throws)
            IN IF Raised(e) THEN Reject(e)
               ELSE [Record(e, "wait", "cooldown", NoUrl) EXCEPT !.pc = "cooldown"]
       ELSE LET e == OnProgress(c, "error", c.i + 1, <<>>, throws)
            IN IF Raised(e) THEN Reject(e)
               ELSE WhileHead([e EXCEPT !.results = Append(@, FailureOutcome(e, error))], base)

\* The statistics and the 'complete' event after the for loop.
Count(results, flag) ==
    LET Test(r) == r.success = flag IN Len(SelectSeq(results, Test))

\* A variant that counts every outcome as a failure.
Complete_CountsAll(s, throws) ==
    LET n == Len(s.targets)
        e == OnProgress(s, "complete", n, <<Count(s.results, TRUE), Len(s.results)>>, throws)
    IN IF Raised(e) THEN Reject(e)
       ELSE [e EXCEPT !.pc = "done", !.returned = e.results]

Complete(s, throws) ==
    LET n == Len(s.targets)
        e == OnProgress(s, "complete", n, <<Count(s.results, TRUE), Count(s.results, FALSE)>>, throws)
    IN IF Raised(e) THEN Reject(e)
       ELSE [e EXCEPT !.pc = "done", !.returned = e.results]

\* One iteration of the for loop up to its first await, or the end of the loop.
UsersIteration(s, base, throws) ==
    IF s.i < Len(s.targets)
    THEN LET e == OnProgress(s, "start", s.i + 1, <<>>, throws)
         IN IF Raised(e) THEN Reject(e)
            ELSE WhileHead([e EXCEPT !.retryAttempts = 0, !.success = FALSE], base)
    ELSE Complete(s, throws)

\* What follows the fetch in flight once it has resolved or failed.
UsersResolved(s, base, throwsTry, throwsCatch) ==
    LET r == ParseV2exPage(s.inflight, TransportOk(s), AttemptsOn(s, s.i + 1))
        landed == [Record(s, "resolved", IF r.ok THEN "ok" ELSE "failed", s.inflight)
                     EXCEPT !.inflight = NoUrl]
    IN IF r.ok
       THEN LET t == TryBody(landed, r.data, throwsTry)
            IN IF Raised(t) THEN CatchBlock(t, t.exc, base, throwsCatch)
               ELSE WhileHead(t, base)
       ELSE CatchBlock(landed, r.error, base, throwsCatch)

UsersLoop(v) ==
    /\ inv[v].op = "users" /\ inv[v].pc = "loop"
    /\ \E throws \in ThrowChoices(inv[v]) :
          inv' = [inv EXCEPT ![v] = UsersIteration(inv[v], baseUrl, throws)]
    /\ UNCHANGED <<baseUrl, post, scan>>

\* A variant that keeps the retry counter on the parser instance, where the
\* invocations in progress share it.
UsersFetchResolved_SharedCounter(v) ==
    /\ inv[v].op = "users" /\ inv[v].pc = "fetch"
    /\ LET shared == CHOOSE n \in {inv[w].retryAttempts : w \in Invs} :
                         \A w \in Invs : inv[w].retryAttempts <= n
           seen == [inv[v] EXCEPT !.retryAttempts = shared]
       IN \E throwsTry \in ThrowChoices(inv[v]), throwsCatch \in ThrowChoices(inv[v]) :
             inv' = [inv EXCEPT ![v] = UsersResolved(seen, baseUrl, throwsTry, throwsCatch)]
    /\ UNCHANGED <<baseUrl, post, scan>>

UsersFetchResolved(v) ==
    /\ inv[v].op = "users" /\ inv[v].pc = "fetch"
    /\ \E throwsTry \in ThrowChoices(inv[v]), throwsCatch \in ThrowChoices(inv[v]) :
          inv' = [inv EXCEPT ![v] = UsersResolved(inv[v], baseUrl, throwsTry, throwsCatch)]
    /\ UNCHANGED <<baseUrl, post, scan>>

\* setTimeout(resolve, 2000) fired: back to the head of the while loop.
CooldownElapsed(v) ==
    /\ inv[v].op = "users" /\ inv[v].pc = "cooldown"
    /\ inv' = [inv EXCEPT ![v] = WhileHead(inv[v], baseUrl)]
    /\ UNCHANGED <<baseUrl, post, scan>>

\* setTimeout(resolve, finalOptions.delay) fired.
DelayElapsed(v) ==
    /\ inv[v].op = "users" /\ inv[v].pc = "delay"
    /\ inv' = [inv EXCEPT ![v] = ForNext(inv[v])]
    /\ UNCHANGED <<baseUrl, post, scan>>

(***************************************************************************)
(* parseMultiplePages                                                      *)
(***************************************************************************)
PageOutcome(url, r) ==
    IF r.ok THEN [url |-> url, success |-> TRUE, data |-> r.data]
    ELSE [url |-> url, success |-> FALSE, error |-> r.error]

\* for (const url of urls): the call of parseV2exPage up to its await, or the return.
PagesIteration(s) ==
    IF s.i < Len(s.targets)
    THEN LET url == s.targets[s.i + 1]
         IN [Record(s, "fetch", "get", url) EXCEPT !.pc = "fetch", !.inflight = url]
    ELSE [s EXCEPT !.pc = "done", !.returned = s.results]

\* A variant without the try/catch: a failed page rejects the batch.
PagesResolved_Rethrows(s) ==
    LET r == ParseV2exPage(s.inflight, TransportOk(s), AttemptsOn(s, s.i + 1))
        landed == Record(s, "resolved", IF r.ok THEN "ok" ELSE "failed", s.inflight)
    IN IF r.ok
       THEN [landed EXCEPT !.results = Append(@, PageOutcome(s.inflight, r)),
                           !.inflight = NoUrl, !.i = @ + 1, !.pc = "loop"]
       ELSE [landed EXCEPT !.exc = r.error, !.inflight = NoUrl, !.pc = "rejected"]

\* try { results.push(success) } catch { results.push(failure) }
PagesResolved(s) ==
    LET r == ParseV2exPage(s.inflight, TransportOk(s), AttemptsOn(s, s.i + 1))
        landed == Record(s, "resolved", IF r.ok THEN "ok" ELSE "failed", s.inflight)
    IN [landed EXCEPT !.results = Append(@, PageOutcome(s.inflight, r)),
                 !.inflight = NoUrl, !.i = @ + 1, !.pc = "loop"]

PagesLoop(v) ==
    /\ inv[v].op = "pages" /\ inv[v].pc = "loop"
    /\ inv' = [inv EXCEPT ![v] = PagesIteration(inv[v])]
    /\ UNCHANGED <<baseUrl, post, scan>>

PagesFetchResolved(v) ==
    /\ inv[v].op = "pages" /\ inv[v].pc = "fetch"
    /\ inv' = [inv EXCEPT ![v] = PagesResolved(inv[v])]
    /\ UNCHANGED <<baseUrl, post, scan>>

(***************************************************************************)
(* The post operations.  A fetched page is a document: its reply cells     *)
(* (.cell[id^="r_"]), on page 1 also the script's words array and the      *)
(* pagination controls.  Fields the merge does not touch (title, author,   *)
(* tags, floor, time, device) are left out of the records.                 *)
(***************************************************************************)
ReplyIds == {"r1", "r2", "r3"}

Image == [src |-> "a.png", alt |-> ""]

\* The cells a page can show: a text reply, an image-only reply, a reply
\* without an author link, and a cell with neither text nor image.
ReplyCells ==
    UNION {{[id |-> id, author |-> "alice", content |-> "hi", images |-> <<>>],
            [id |-> id, author |-> "bob", content |-> "", images |-> <<Image>>],
            [id |-> id, author |-> "", content |-> "hi", images |-> <<>>],
            [id |-> id, author |-> "dave", content |-> "", images |-> <<>>]} : id \in ReplyIds}

\* Element ids are unique within one document.
DistinctIds(cells) ==
    \A a \in 1..Len(cells) : \A b \in 1..Len(cells) : a # b => cells[a].id # cells[b].id

CellLists(n) == {cells \in SeqsUpTo(ReplyCells, n) : DistinctIds(cells)}

\* var words = [...] in a script of the page: absent, or a list of ids.
NoWords == [found |-> FALSE, ids |-> <<>>]

ScriptWords ==
    {NoWords, [found |-> TRUE, ids |-> <<"alice", "carol">>],
     [found |-> TRUE, ids |-> <<"carol", "alice", "carol">>]}

\* The .page_normal / .page_current links of a thread of n pages, shown on page 1
\* in one bar or in two (above and below the replies).  text is the page number
\* the link shows, 0 for a link without text.
PageLink(n) ==
    [cls |-> IF n = 1 THEN "page_current" ELSE "page_normal", href |-> TRUE, text |-> n]

PageLinks(n) == [k \in 1..n |-> PageLink(k)]

\* A link without href, and a link without text: detectPagination passes them over.
NoHref(link) == [link EXCEPT !.href = FALSE]

NoText(link) == [link EXCEPT !.text = 0]

OddControlLists ==
    {<<NoHref(PageLink(1))>>,
     <<PageLink(1), NoHref(PageLink(2))>>,
     <<PageLink(1), PageLink(2), NoText(PageLink(3))>>}

ControlLists ==
    {PageLinks(n) : n \in 0..3} \union {PageLinks(n) \o PageLinks(n) : n \in 2..3}
        \union OddControlLists

PostIds == {"123456"}

PostUrl(base, postId) == [base |-> base, path |-> "t", id |-> postId]

MaxOf(S) == CHOOSE x \in S : \A y \in S : y <= x

\* parsePostPage and parseMultiPagePost: one record per cell that has text or an image.
ReplyOf(cell) ==
    [id |-> cell.id, author |-> [id |-> cell.author], content |-> cell.content,
     images |-> cell.images]

Shown(cell) == cell.content # "" \/ Len(cell.images) > 0

RECURSIVE CollectReplies(_)
CollectReplies(cells) ==
    IF cells = <<>> THEN <<>>
    ELSE IF Shown(Head(cells))
    THEN <<ReplyOf(Head(cells))>> \o CollectReplies(Tail(cells))
    ELSE CollectReplies(Tail(cells))

Member(x, list) == \E j \in 1..Len(list) : list[j] = x

AddNew(list, x) == IF Member(x, list) THEN list ELSE Append(list, x)

\* extractReplyUserIds: the words array if the script has one, else the authors' links.
RECURSIVE AuthorLinks(_, _)
AuthorLinks(ids, cells) ==
    IF cells = <<>> THEN ids
    ELSE AuthorLinks(IF Head(cells).author # "" THEN AddNew(ids, Head(cells).author) ELSE ids,
                     Tail(cells))

ExtractReplyUserIds(doc) ==
    IF doc.words.found THEN doc.words.ids ELSE AuthorLinks(<<>>, doc.cells)

\* A variant that counts the original post among the replies.
Statistics_CountsPost(replies) ==
    [replyCount |-> Len(replies) + 1, totalFloors |-> Len(replies) + 1]

Statistics(replies) ==
    [replyCount |-> Len(replies), totalFloors |-> Len(replies) + 1]

ParsePostPage(doc, url) ==
    LET replies == CollectReplies(doc.cells)
    IN [type |-> "post", url |-> url, replyUserIds |-> ExtractReplyUserIds(doc),
        replies |-> replies, statistics |-> Statistics(replies)]

\* detectPagination.  $(...).text() joins the texts of all .page_current links,
\* and parseInt reads the digits (page numbers below 10 here).
NaN == [nan |-> TRUE]

RECURSIVE Digits(_, _)
Digits(texts, acc) ==
    IF texts = <<>> THEN acc ELSE Digits(Tail(texts), acc * 10 + Head(texts))

ParseInt(texts) ==
    LET HasText(x) == x # 0
        shown == SelectSeq(texts, HasText)
    IN IF shown = <<>> THEN NaN ELSE Digits(shown, 0)

RECURSIVE PageUrlsOf(_)
PageUrlsOf(controls) ==
    IF controls = <<>> THEN <<>>
    ELSE LET c == Head(controls)
         IN (IF c.href /\ c.text # 0 THEN <<[page |-> c.text, url |-> <<"?p=", c.text>>]>>
             ELSE <<>>)
                \o PageUrlsOf(Tail(controls))

\* A variant that takes the number of links for the number of pages.
DetectPagination_CountsLinks(controls) ==
    LET pageUrls == PageUrlsOf(controls)
        IsCurrent(c) == c.cls = "page_current"
        current == SelectSeq(controls, IsCurrent)
    IN [hasMultiplePages |-> Len(controls) > 0,
        totalPages |-> IF Len(pageUrls) > 0 THEN Len(pageUrls) ELSE 1,
        currentPage |-> IF Len(current) > 0
                        THEN ParseInt([j \in 1..Len(current) |-> current[j].text])
                        ELSE 1,
        pageUrls |-> pageUrls]

DetectPagination(controls) ==
    LET pageUrls == PageUrlsOf(controls)
        IsCurrent(c) == c.cls = "page_current"
        current == SelectSeq(controls, IsCurrent)
    IN [hasMultiplePages |-> Len(controls) > 0,
        totalPages |-> IF Len(pageUrls) > 0
                       THEN MaxOf({pageUrls[j].page : j \in 1..Len(pageUrls)}) ELSE 1,
        currentPage |-> IF Len(current) > 0
                        THEN ParseInt([j \in 1..Len(current) |-> current[j].text])
                        ELSE 1,
        pageUrls |-> pageUrls]

(***************************************************************************)
(* One call of parsePost: parseMultiPagePost, or with useMultiPage: false  *)
(* parseV2exPage on the thread's URL.                                      *)
(*   budget is the number of reply cells the thread's pages may still      *)
(*   show; pages is the history of what each page gave, in the order of    *)
(*   the fetches (failed, or the replies assembled from it); trace is the  *)
(*   history of fetches and pacing waits; controls are the pagination      *)
(*   links page 1 showed and exposed the id list parsePostPage read from   *)
(*   page 1.                                                               *)
(***************************************************************************)
NoPost == [type |-> "none"]

NoPagination == DetectPagination(<<>>)

PostIdle ==
    [pc |-> "idle", mode |-> "none", url |-> NoUrl, budget |-> 0, postInfo |-> NoPost,
     allReplies |-> <<>>, page |-> 0, pagination |-> NoPagination, pages |-> <<>>,
     trace |-> <<>>, controls |-> <<>>, exposed |-> <<>>, result |-> NoPost]

Log(p, kind, page) == [p EXCEPT !.trace = Append(@, [kind |-> kind, page |-> page])]

Gave(p, page, ok, replies) ==
    [p EXCEPT !.pages = Append(@, [page |-> page, ok |-> ok, replies |-> replies])]

\* parsePost up to the first await.
NewPost(mode, base, postId, budget) ==
    [Log(PostIdle, "fetch", 1) EXCEPT !.mode = mode, !.url = PostUrl(base, postId),
                                      !.budget = budget, !.page = 1,
                                      !.pc = IF mode = "multi" THEN "first" ELSE "single"]

RECURSIVE AuthorIds(_, _)
AuthorIds(ids, replies) ==
    IF replies = <<>> THEN ids
    ELSE AuthorIds(IF Head(replies).author.id # "" THEN AddNew(ids, Head(replies).author.id)
                   ELSE ids,
                   Tail(replies))

\* A variant that keeps the list as page 1 exposed it.
Unique_KeepsAll(list) == list

\* new Set(list), in insertion order.
RECURSIVE Unique(_)
Unique(list) ==
    IF list = <<>> THEN <<>>
    ELSE AddNew(Unique(SubSeq(list, 1, Len(list) - 1)), list[Len(list)])

Merged(p, combined) ==
    [type |-> "post", url |-> p.postInfo.url,
     replyUserIds |-> AuthorIds(Unique(p.postInfo.replyUserIds), combined),
     replies |-> combined,
     statistics |-> [replyCount |-> Len(combined), totalFloors |-> Len(combined) + 1,
                     totalPages |-> p.pagination.totalPages],
     pagination |-> p.pagination]

\* A variant that puts the later pages in front of page 1.
Merge_LaterPagesFirst(p) ==
    LET merged == Merged(p, p.allReplies \o p.postInfo.replies)
    IN [p EXCEPT !.pc = "done", !.postInfo = merged, !.result = merged]

\* The merge after the page loop, and the return.
Merge(p) ==
    LET merged == Merged(p, p.postInfo.replies \o p.allReplies)
    IN [p EXCEPT !.pc = "done", !.postInfo = merged, !.result = merged]

\* for (page...; page <= totalPages; page++): the next page's fetch, or out of the loop.
PageLoop(p, page) ==
    IF page <= p.pagination.totalPages
    THEN [Log(p, "fetch", page) EXCEPT !.pc = "page", !.page = page]
    ELSE Merge(p)

\* Page 1 arrived: parsePostPage, detectPagination, and on to page 2 or to the merge.
FirstPage(p, doc) ==
    LET info == ParsePostPage(doc, p.url)
        q == [Gave(p, 1, TRUE, info.replies)
                EXCEPT !.postInfo = info, !.pagination = DetectPagination(doc.controls),
                       !.controls = doc.controls, !.exposed = info.replyUserIds,
                       !.budget = @ - Len(doc.cells)]
    IN IF q.pagination.hasMultiplePages /\ q.pagination.totalPages > 1
       THEN PageLoop(q, 2)
       ELSE Merge(q)

\* A variant whose outer catch swallows the error: the call returns what it has.
FirstPageFailed_ReturnsEmpty(p) == [Gave(p, 1, FALSE, <<>>) EXCEPT !.pc = "done"]

\* The outer catch: throw new Error(`抓取多页帖子失败: ...`).
FirstPageFailed(p) == [Gave(p, 1, FALSE, <<>>) EXCEPT !.pc = "rejected"]

\* A later page arrived: its replies are appended, then the pacing wait unless it is the last.
LaterPage(p, doc) ==
    LET pageReplies == CollectReplies(doc.cells)
        q == [Gave(p, p.page, TRUE, pageReplies)
                EXCEPT !.allReplies = @ \o pageReplies, !.budget = @ - Len(doc.cells)]
    IN IF q.page < q.pagination.totalPages
       THEN [Log(q, "wait", q.page) EXCEPT !.pc = "pace"]
       ELSE PageLoop(q, q.page + 1)

\* A variant whose inner catch gives up the crawl: it merges what it has.
LaterPageFailed_StopsCrawl(p) == Merge(Gave(p, p.page, FALSE, <<>>))

\* The inner catch: console.warn, and on to the next page.
LaterPageFailed(p) == PageLoop(Gave(p, p.page, FALSE, <<>>), p.page + 1)

\* parsePost with useMultiPage: false: parseV2exPage, which parses the thread's page.
SinglePage(p, doc) ==
    LET info == ParsePostPage(doc, p.url)
    IN [Gave(p, 1, TRUE, info.replies)
          EXCEPT !.pc = "done", !.postInfo = info, !.result = info,
                 !.budget = @ - Len(doc.cells)]

Documents(p, words, controls) ==
    [cells : CellLists(p.budget), words : words, controls : controls]

FirstPageResolved ==
    /\ post.mode = "multi" /\ post.pc = "first"
    /\ \E doc \in Documents(post, ScriptWords, ControlLists) : post' = FirstPage(post, doc)
    /\ UNCHANGED <<baseUrl, inv, scan>>

FirstPageRejected ==
    /\ post.mode = "multi" /\ post.pc = "first"
    /\ post' = FirstPageFailed(post)
    /\ UNCHANGED <<baseUrl, inv, scan>>

LaterPageResolved ==
    /\ post.mode = "multi" /\ post.pc = "page"
    /\ \E doc \in Documents(post, {NoWords}, {<<>>}) : post' = LaterPage(post, doc)
    /\ UNCHANGED <<baseUrl, inv, scan>>

LaterPageRejected ==
    /\ post.mode = "multi" /\ post.pc = "page"
    /\ post' = LaterPageFailed(post)
    /\ UNCHANGED <<baseUrl, inv, scan>>

\* setTimeout(resolve, 1000) fired.
PaceElapsed ==
    /\ post.mode = "multi" /\ post.pc = "pace"
    /\ post' = PageLoop(post, post.page + 1)
    /\ UNCHANGED <<baseUrl, inv, scan>>

SinglePageResolved ==
    /\ post.mode = "single" /\ post.pc = "single"
    /\ \E doc \in Documents(post, ScriptWords, ControlLists) : post' = SinglePage(post, doc)
    /\ UNCHANGED <<baseUrl, inv, scan>>

SinglePageRejected ==
    /\ post.mode = "single" /\ post.pc = "single"
    /\ post' = [Gave(post, 1, FALSE, <<>>) EXCEPT !.pc = "rejected"]
    /\ UNCHANGED <<baseUrl, inv, scan>>

InitPost ==
    /\ baseUrl = DefaultBaseUrl
    /\ inv = [v \in Invs |-> Idle]
    /\ post \in {NewPost(mode, baseUrl, postId, MaxReplies) :
                    mode \in {"multi", "single"}, postId \in PostIds}
    /\ scan = ScanIdle

NextPost ==
    \/ FirstPageResolved
    \/ FirstPageRejected
    \/ LaterPageResolved
    \/ LaterPageRejected
    \/ PaceElapsed
    \/ SinglePageResolved
    \/ SinglePageRejected

SpecPost == InitPost /\ [][NextPost]_vars

(***************************************************************************)
(* The address recognizer.  A text is a sequence of characters; offsets    *)
(* count from 0 as in the code, so the character at offset k is text[k+1]. *)
(***************************************************************************)
MaxPieces == 3

\* [1-9A-HJ-NP-Za-km-z]
Base58 ==
    {"1", "2", "3", "4", "5", "6", "7", "8", "9", "A", "B", "C", "D", "E",
     "F", "G", "H", "J", "K", "L", "M", "N", "P", "Q", "R", "S", "T", "U",
     "V", "W", "X", "Y", "Z", "a", "b", "c", "d", "e", "f", "g", "h", "i",
     "j", "k", "m", "n", "o", "p", "q", "r", "s", "t", "u", "v", "w", "x",
     "y", "z"}

\* \d
Digit == {"0", "1", "2", "3", "4", "5", "6", "7", "8", "9"}

\* {32,44} in addressRegex, and the length check of isValidSolanaAddress
MinLength == 32

MaxLength == 44

\* the 200 characters before and after the address that isPartOfUrl looks at
Window == 200

\* text.substring(Math.max(0, startIndex - 4), startIndex)
Near == 4

IsBase58(c) == c \in Base58

Rep(c, n) == [j \in 1..n |-> c]

\* text.substring(from, to)
Substring(text, from, to) == SubSeq(text, from + 1, to)

Least(S) == CHOOSE x \in S : \A y \in S : x <= y

\* The pieces the texts are made of: runs of base58 characters at and around the
\* two limits (letters, digits only), a digit, a space, a zero (no base58
\* character), and two pieces of a link.
Pieces ==
    {Rep("A", MinLength), Rep("B", MaxLength), Rep("A", MaxLength + 1),
     Rep("C", MinLength - 1), Rep("7", MinLength), <<"7">>, <<" ">>, <<"0">>,
     <<"t", "x", "/">>, <<".", "i", "o">>}

RECURSIVE Concat(_)
Concat(pieces) == IF pieces = <<>> THEN <<>> ELSE Head(pieces) \o Concat(Tail(pieces))

Texts == {Concat(pieces) : pieces \in SeqsUpTo(Pieces, MaxPieces)}

\* A variant of the pattern without its lookahead (?![1-9A-HJ-NP-Za-km-z]).
RunMatch_NoLookahead(text, at) ==
    LET Fits(n) == at + n <= Len(text) /\ \A j \in 1..n : IsBase58(text[at + j])
        lengths == {n \in MinLength..MaxLength : Fits(n)}
    IN IF lengths = {} THEN 0 ELSE MaxOf(lengths)

\* ([1-9A-HJ-NP-Za-km-z]{32,44})(?![1-9A-HJ-NP-Za-km-z]) tried at offset at:
\* the length of the group, the longest that fits (greedy), or 0 for no match.
RunMatch(text, at) ==
    LET Fits(n) ==
            /\ at + n <= Len(text)
            /\ \A j \in 1..n : IsBase58(text[at + j])
            /\ at + n < Len(text) => ~IsBase58(text[at + n + 1])
        lengths == {n \in MinLength..MaxLength : Fits(n)}
    IN IF lengths = {} THEN 0 ELSE MaxOf(lengths)

NoMatch == [found |-> FALSE, start |-> 0, length |-> 0]

\* addressRegex tried at offset p: (?:^|[^1-9A-HJ-NP-Za-km-z]) and then the group.
\* start is addressStartIndex.
MatchAt(text, p) ==
    IF p = 0 /\ RunMatch(text, 0) > 0
    THEN [found |-> TRUE, start |-> 0, length |-> RunMatch(text, 0)]
    ELSE IF p < Len(text) /\ ~IsBase58(text[p + 1]) /\ RunMatch(text, p + 1) > 0
    THEN [found |-> TRUE, start |-> p + 1, length |-> RunMatch(text, p + 1)]
    ELSE NoMatch

\* addressRegex.exec(text) with the g flag: the leftmost match at or after lastIndex.
Exec(text, lastIndex) ==
    LET hits == {p \in lastIndex..(Len(text) - 1) : MatchAt(text, p).found}
    IN IF hits = {} THEN NoMatch ELSE MatchAt(text, Least(hits))

IsValidSolanaAddress(address) ==
    /\ Len(address) >= MinLength /\ Len(address) <= MaxLength
    /\ \A j \in 1..Len(address) : IsBase58(address[j])
    /\ ~(\A j \in 1..Len(address) : address[j] \in Digit)

\* The i flag of the patterns.
LowerMap ==
    [A |-> "a", B |-> "b", C |-> "c", D |-> "d", E |-> "e", F |-> "f",
     G |-> "g", H |-> "h", I |-> "i", J |-> "j", K |-> "k", L |-> "l",
     M |-> "m", N |-> "n", O |-> "o", P |-> "p", Q |-> "q", R |-> "r",
     S |-> "s", T |-> "t", U |-> "u", V |-> "v", W |-> "w", X |-> "x",
     Y |-> "y", Z |-> "z"]

Lower(c) == IF c \in DOMAIN LowerMap THEN LowerMap[c] ELSE c

LowerText(text) == [j \in 1..Len(text) |-> Lower(text[j])]

\* urlPatterns of isPartOfUrl, each alternative written out.
UrlPatterns ==
    {<<"h", "t", "t", "p", ":", "/", "/">>,
     <<"h", "t", "t", "p", "s", ":", "/", "/">>,
     <<"w", "w", "w", ".">>,
     <<".", "c", "o", "m">>,
     <<".", "o", "r", "g">>,
     <<".", "n", "e", "t">>,
     <<".", "i", "o">>,
     <<".", "c", "o">>,
     <<".", "m", "e">>,
     <<".", "t", "v">>,
     <<".", "a", "p", "p">>,
     <<".", "x", "y", "z">>,
     <<".", "s", "o", "l">>,
     <<".", "s", "c", "a", "n">>,
     <<".", "e", "x", "p", "l", "o", "r", "e", "r">>,
     <<"/", "t", "x", "/">>,
     <<"/", "a", "d", "d", "r", "e", "s", "s", "/">>}

\* pattern.test(text) for a pattern that is a literal; text is in lower case.
PatternTest(pattern, text) ==
    \E k \in 0..(Len(text) - Len(pattern)) : \A j \in 1..Len(pattern) : text[k + j] = pattern[j]

Max0(n) == IF n > 0 THEN n ELSE 0

IsPartOfUrl(text, startIndex, addressLength) ==
    LET beforeText == Substring(text, Max0(startIndex - Window), startIndex)
        afterEnd == IF startIndex + addressLength + Window < Len(text)
                    THEN startIndex + addressLength + Window ELSE Len(text)
        afterText == Substring(text, startIndex + addressLength, afterEnd)
        combinedText == LowerText(beforeText \o afterText)
        immediateBefore == Substring(text, Max0(startIndex - Near), startIndex)
    IN \/ immediateBefore \in {<<"/", "t", "x", "/">>, <<"t", "x", "/">>, <<"/", "a", "d", "d", "r", "e", "s", "s", "/">>, <<"a", "d", "d", "r", "e", "s", "s", "/">>}
       \/ \E pattern \in UrlPatterns : PatternTest(pattern, combinedText)

\* while ((match = addressRegex.exec(text)) !== null) { ... addresses.push(address) }
RECURSIVE ExecLoop(_, _, _)
ExecLoop(text, lastIndex, addresses) ==
    LET match == Exec(text, lastIndex)
        address == Substring(text, match.start, match.start + match.length)
    IN IF ~match.found THEN addresses
       ELSE ExecLoop(text, match.start + match.length,
                     IF IsValidSolanaAddress(address)
                        /\ ~IsPartOfUrl(text, match.start, match.length)
                     THEN Append(addresses, address) ELSE addresses)

ExtractSolanaAddressesWithBoundary(text) ==
    IF text = <<>> THEN <<>> ELSE Unique(ExecLoop(text, 0, <<>>))

\* The call, which does not await: one step.
AddressesExtracted ==
    /\ scan.pc = "called"
    /\ scan' = [scan EXCEPT !.pc = "done",
                            !.addresses = ExtractSolanaAddressesWithBoundary(scan.text)]
    /\ UNCHANGED <<baseUrl, inv, post>>

InitScan ==
    /\ baseUrl = DefaultBaseUrl
    /\ inv = [v \in Invs |-> Idle]
    /\ post = PostIdle
    /\ scan \in {[ScanIdle EXCEPT !.pc = "called", !.text = text] : text \in Texts}

NextScan == AddressesExtracted

SpecScan == InitScan /\ [][NextScan]_vars

(***************************************************************************)
(* The domain recognizer, extractSolanaDomainsFromText.                    *)
(***************************************************************************)
\* \s
IsSpace(c) == c \in {" ", "\n"}

\* [a-zA-Z0-9_-]
LabelChars == Base58 \union {"0", "I", "O", "l", "_", "-"}

DotSol == <<".", "s", "o", "l">>

\* Whether the literal lit stands at offset at of text.
HasAt(text, at, lit) ==
    at + Len(lit) <= Len(text) /\ \A j \in 1..Len(lit) : text[at + j] = lit[j]

\* A variant of the pattern without its lookahead (?=\s|$).
DomainMatchAt_NoLookahead(text, p) ==
    LET labels == {n \in 1..(Len(text) - p) : \A j \in 1..n : text[p + j] \in LabelChars}
        fits == {n \in labels : HasAt(text, p + n, DotSol)}
    IN IF (p = 0 \/ IsSpace(text[p])) /\ fits # {} THEN MaxOf(fits) + Len(DotSol) ELSE 0

\* domainRegex /(?<!\S)([a-zA-Z0-9_-]+\.sol)(?=\s|$)/ tried at offset p:
\* the length of the match, or 0 for no match.
DomainMatchAt(text, p) ==
    LET labels == {n \in 1..(Len(text) - p) : \A j \in 1..n : text[p + j] \in LabelChars}
        Ends(n) == /\ HasAt(text, p + n, DotSol)
                   /\ p + n + Len(DotSol) = Len(text) \/ IsSpace(text[p + n + Len(DotSol) + 1])
        fits == {n \in labels : Ends(n)}
    IN IF (p = 0 \/ IsSpace(text[p])) /\ fits # {} THEN MaxOf(fits) + Len(DotSol) ELSE 0

\* text.match(domainRegex) with the g flag: every match, from left to right.
RECURSIVE MatchAll(_, _, _)
MatchAll(text, lastIndex, matches) ==
    LET hits == {p \in lastIndex..(Len(text) - 1) : DomainMatchAt(text, p) > 0}
    IN IF hits = {} THEN matches
       ELSE LET p == Least(hits)
                n == DomainMatchAt(text, p)
            IN MatchAll(text, p + n, Append(matches, Substring(text, p, p + n)))

\* The matches that pass the filter, each once: domain.replace('.sol', '') takes
\* the first occurrence of the suffix out.
ExtractSolanaDomainsFromText(text) ==
    LET DomainPart(domain) ==
            LET at == Least({k \in 0..(Len(domain) - Len(DotSol)) : HasAt(domain, k, DotSol)})
            IN Substring(domain, 0, at) \o Substring(domain, at + Len(DotSol), Len(domain))
        Valid(domain) ==
            /\ Len(domain) >= 4
            /\ HasAt(domain, Len(domain) - Len(DotSol), DotSol)
            /\ DomainPart(domain) # <<>>
            /\ \A j \in 1..Len(DomainPart(domain)) : DomainPart(domain)[j] \in LabelChars
    IN IF text = <<>> THEN <<>> ELSE Unique(SelectSeq(MatchAll(text, 0, <<>>), Valid))

\* The pieces of the texts given to the domain recognizer: label characters, the
\* suffix, a space, a character that is neither a label character nor
\* whitespace, and two whole domains, one of them with a line end after it.
MaxWords == 4

\* The call, which does not await: one step.
DomainsExtracted ==
    /\ scan.pc = "asked"
    /\ scan' = [scan EXCEPT !.pc = "answered",
                            !.domains = ExtractSolanaDomainsFromText(scan.text)]
    /\ UNCHANGED <<baseUrl, inv, post>>

InitDomains ==
    /\ baseUrl = DefaultBaseUrl
    /\ inv = [v \in Invs |-> Idle]
    /\ post = PostIdle
    /\ LET pieces == {<<"a">>, <<"-">>, DotSol, <<" ">>, <<"!">>, <<"a", ".", "s", "o", "l">>,
                      <<"9", ".", "s", "o", "l", "\n">>}
       IN scan \in {[ScanIdle EXCEPT !.pc = "asked", !.text = Concat(words)]
                      : words \in SeqsUpTo(pieces, MaxWords)}

SpecDomains == InitDomains /\ [][DomainsExtracted]_vars

(***************************************************************************)
(* The normalization of an HTML fragment to text, as parsePostPage applies *)
(* it to the content of the post and of each reply, and parseMultiPagePost *)
(* to the replies of the later pages.                                      *)
(***************************************************************************)
MaxParts == 3

\* text.replace(pattern, by) with the g flag; lens[p] is the length of the match of
\* the pattern at offset p, 0 for none.
RECURSIVE Rewrite(_, _, _, _)
Rewrite(text, lens, by, p) ==
    IF p >= Len(text) THEN <<>>
    ELSE IF lens[p] > 0 THEN by \o Rewrite(text, lens, by, p + lens[p])
    ELSE <<text[p + 1]>> \o Rewrite(text, lens, by, p + 1)

\* /<br\s*\/?>/gi at offset p
BrLength(text, p) ==
    LET HasI(at, lit) == at + Len(lit) <= Len(text) /\ \A j \in 1..Len(lit) : Lower(text[at + j]) = lit[j]
        spaces == MaxOf({n \in 0..(Len(text) - p - 3) : \A j \in 1..n : IsSpace(text[p + 3 + j])})
        slash == IF p + 3 + spaces < Len(text) /\ text[p + 3 + spaces + 1] = "/" THEN 1 ELSE 0
        Closes(at) == at < Len(text) /\ text[at + 1] = ">"
    IN IF ~HasI(p, <<"<", "b", "r">>) THEN 0
       ELSE IF Closes(p + 3 + spaces + slash) THEN 3 + spaces + slash + 1
       ELSE IF Closes(p + 3 + spaces) THEN 3 + spaces + 1
       ELSE 0

\* /<[^>]*>/g at offset p
TagLength(text, p) ==
    LET closes == {k \in (p + 1)..(Len(text) - 1) : text[k + 1] = ">"}
    IN IF text[p + 1] = "<" /\ closes # {} THEN Least(closes) + 1 - p ELSE 0

\* String.prototype.trim
Trim(text) ==
    LET inked == {j \in 1..Len(text) : ~IsSpace(text[j])}
    IN IF inked = {} THEN <<>> ELSE SubSeq(text, Least(inked), MaxOf(inked))

\* The entities that the chain decodes.
Entity ==
    [nbsp |-> <<"&", "n", "b", "s", "p", ";">>, lt |-> <<"&", "l", "t", ";">>,
     gt |-> <<"&", "g", "t", ";">>, amp |-> <<"&", "a", "m", "p", ";">>,
     quot |-> <<"&", "q", "u", "o", "t", ";">>]

\* A variant that trims before it decodes.
Normalize_TrimsFirst(html) ==
    LET broken == Rewrite(html, [p \in 0..(Len(html) - 1) |-> BrLength(html, p)], <<"\n">>, 0)
        bare == Trim(Rewrite(broken, [p \in 0..(Len(broken) - 1) |-> TagLength(broken, p)], <<>>, 0))
        ReplaceLiteral(text, lit, by) ==
            Rewrite(text, [p \in 0..(Len(text) - 1) |-> IF HasAt(text, p, lit) THEN Len(lit) ELSE 0], by, 0)
        a == ReplaceLiteral(bare, Entity.nbsp, <<" ">>)
        b == ReplaceLiteral(a, Entity.lt, <<"<">>)
        c == ReplaceLiteral(b, Entity.gt, <<">">>)
        d == ReplaceLiteral(c, Entity.amp, <<"&">>)
    IN ReplaceLiteral(d, Entity.quot, <<"\"">>)

\* .replace(/<br\s*\/?>/gi, '\n').replace(/<[^>]*>/g, '').replace(/&nbsp;/g, ' ')
\* .replace(/&lt;/g, '<').replace(/&gt;/g, '>').replace(/&amp;/g, '&')
\* .replace(/&quot;/g, '"').trim()
Normalize(html) ==
    LET broken == Rewrite(html, [p \in 0..(Len(html) - 1) |-> BrLength(html, p)], <<"\n">>, 0)
        bare == Rewrite(broken, [p \in 0..(Len(broken) - 1) |-> TagLength(broken, p)], <<>>, 0)
        ReplaceLiteral(text, lit, by) ==
            Rewrite(text, [p \in 0..(Len(text) - 1) |-> IF HasAt(text, p, lit) THEN Len(lit) ELSE 0], by, 0)
        a == ReplaceLiteral(bare, Entity.nbsp, <<" ">>)
        b == ReplaceLiteral(a, Entity.lt, <<"<">>)
        c == ReplaceLiteral(b, Entity.gt, <<">">>)
        d == ReplaceLiteral(c, Entity.amp, <<"&">>)
        e == ReplaceLiteral(d, Entity.quot, <<"\"">>)
    IN Trim(e)

\* The fragment is normalized.
FragmentNormalized ==
    /\ scan.pc = "fragment"
    /\ scan' = [scan EXCEPT !.pc = "once", !.normalized = Normalize(scan.text)]
    /\ UNCHANGED <<baseUrl, inv, post>>

\* The normalization is applied to its own result.
TextNormalized ==
    /\ scan.pc = "once"
    /\ scan' = [scan EXCEPT !.pc = "twice", !.again = Normalize(scan.normalized)]
    /\ UNCHANGED <<baseUrl, inv, post>>

InitNormalize ==
    /\ baseUrl = DefaultBaseUrl
    /\ inv = [v \in Invs |-> Idle]
    /\ post = PostIdle
    \* The pieces of the fragments, which are element.html(): two line breaks, a
    \* tag, the five entities, the tails of four of them (text that follows an
    \* escaped ampersand), a letter and a space.
    /\ LET pieces == {<<"<", "b", "r", ">">>, <<"<", "B", "R", " ", "/", ">">>, <<"<", "b", ">">>,
                      <<"l", "t", ";">>, <<"g", "t", ";">>, <<"n", "b", "s", "p", ";">>,
                      <<"q", "u", "o", "t", ";">>, <<"x">>, <<" ">>}
                         \union {Entity[e] : e \in DOMAIN Entity}
       IN scan \in {[ScanIdle EXCEPT !.pc = "fragment", !.text = Concat(parts)]
                      : parts \in SeqsUpTo(pieces, MaxParts)}

SpecNormalize == InitNormalize /\ [][FragmentNormalized \/ TextNormalized]_vars

(***************************************************************************)
(* The recognizer's call sites: extractSolanaAddress on a profile page and *)
(* extractSolanaAddressesFromText on a reply's text.                       *)
(***************************************************************************)
\* The offset where the run of [^\s] that holds offset p ends.
TokenEnd(text, p) == Least({k \in p..Len(text) : k = Len(text) \/ IsSpace(text[k + 1])})

\* sanitized.replace(/https?:\/\/[^\s]*\/(...)\/[^\s]*/gi, ' ') for the segments
\* (...) given in lower case (the i flag): a match runs on to TokenEnd, and every
\* match, from left to right, gives way to one space.
ReplaceLinks(text, segments) ==
    LET lower == [j \in 1..Len(text) |-> Lower(text[j])]
        schemes == {<<"h", "t", "t", "p", ":", "/", "/">>, <<"h", "t", "t", "p", "s", ":", "/", "/">>}
        Link(p) == \E scheme \in schemes :
                       /\ HasAt(lower, p, scheme)
                       /\ \E k \in (p + Len(scheme))..TokenEnd(text, p) : \E segment \in segments :
                             HasAt(lower, k, segment) /\ k + Len(segment) <= TokenEnd(text, p)
        starts == {p \in 0..(Len(text) - 1) : Link(p)}
        first == {p \in starts : ~\E q \in starts : q < p /\ p < TokenEnd(text, q)}
        Covered(k) == \E p \in first : p < k /\ k < TokenEnd(text, p)
        marked == [j \in 1..Len(text) |->
                      IF (j - 1) \in first THEN " " ELSE IF Covered(j - 1) THEN "" ELSE text[j]]
        Kept(c) == c # ""
    IN SelectSeq(marked, Kept)

\* The pattern of (tx|transaction|confirmTransaction), then the pattern of txs.
RemoveUrlTransactionSignatures(text) ==
    LET tx == {<<"/", "t", "x", "/">>,
               <<"/", "t", "r", "a", "n", "s", "a", "c", "t", "i", "o", "n", "/">>,
               <<"/", "c", "o", "n", "f", "i", "r", "m", "t", "r", "a", "n", "s", "a", "c", "t", "i",
                 "o", "n", "/">>}
        txs == {<<"/", "t", "x", "s", "/">>}
    IN IF text = <<>> THEN <<>> ELSE ReplaceLinks(ReplaceLinks(text, tx), txs)

\* script is the group of /const address = "([A-Za-z0-9]{32,44})"/ in the page's
\* scripts, <<>> without a match; pageText is $.text().
ExtractSolanaAddress(script, pageText) ==
    LET sanitizedText == RemoveUrlTransactionSignatures(pageText)
        extracted == ExtractSolanaAddressesWithBoundary(sanitizedText)
        domains == ExtractSolanaDomainsFromText(pageText)
    IN [done |-> TRUE,
        solanaAddress |-> IF script # <<>> THEN script
                          ELSE IF extracted # <<>> THEN extracted[1] ELSE <<>>,
        solanaDomain |-> IF domains # <<>> THEN domains[1] ELSE <<>>]

ExtractSolanaAddressesFromText(text) ==
    IF text = <<>> THEN [done |-> TRUE, solanaAddresses |-> <<>>, solanaDomains |-> <<>>]
    ELSE [done |-> TRUE,
          solanaAddresses |-> ExtractSolanaAddressesWithBoundary(text),
          solanaDomains |-> ExtractSolanaDomainsFromText(text)]

\* parseUserInfo's page reaches extractSolanaAddress.
ProfileExtracted ==
    /\ scan.pc = "page" /\ ~scan.profile.done
    /\ scan' = [scan EXCEPT !.profile = ExtractSolanaAddress(scan.script, scan.text)]
    /\ UNCHANGED <<baseUrl, inv, post>>

\* The same text as a reply's content reaches extractSolanaAddressesFromText.
ReplyExtracted ==
    /\ scan.pc = "page" /\ ~scan.reply.done
    /\ scan' = [scan EXCEPT !.reply = ExtractSolanaAddressesFromText(scan.text)]
    /\ UNCHANGED <<baseUrl, inv, post>>

InitSites ==
    /\ baseUrl = DefaultBaseUrl
    /\ inv = [v \in Invs |-> Idle]
    /\ post = PostIdle
    \* The pieces of the page texts: the head of a transaction link and of a
    \* listing link, a stretch as long as the window of isPartOfUrl of a character
    \* that is neither base58 nor whitespace, two runs, a space, the two short
    \* literals of the adjacency check, and a domain.
    /\ LET pieces == {<<"h", "t", "t", "p", "s", ":", "/", "/", "h", "/", "t", "x", "/">>,
                      <<"h", "t", "t", "p", ":", "/", "/", "h", "/", "t", "x", "s", "/">>,
                      Rep("0", Window), Rep("A", MinLength), Rep("B", MaxLength),
                      <<" ">>, <<"t", "x", "/">>, <<"a", "d", "d", "r", "e", "s", "s", "/">>,
                      <<"a", ".", "s", "o", "l">>}
       IN scan \in {[ScanIdle EXCEPT !.pc = "page", !.text = Concat(parts), !.script = script]
                      : parts \in SeqsUpTo(pieces, MaxPieces), script \in {<<>>, Rep("D", MinLength)}}

SpecSites == InitSites /\ [][ProfileExtracted \/ ReplyExtracted]_vars

(***************************************************************************)
(* The batch operations, one invocation at a time.                         *)
(***************************************************************************)
OptionSets(callbacks) ==
    [retryCount : 0..MaxRetry, delay : DelayChoices, onProgress : callbacks]

UsersCalls(callbacks) ==
    UNION {UNION {{NewCall("users", us, o, tr) : tr \in [1..Len(us) -> 0..(o.retryCount + 1)]}
                  : o \in OptionSets(callbacks)}
           : us \in SeqsUpTo(Usernames, MaxTargets)}

PagesCalls ==
    UNION {{NewCall("pages", urls, Idle.options, tr) : tr \in [1..Len(urls) -> 0..1]}
           : urls \in SeqsUpTo(PageUrls, MaxTargets)}

Alone(s) == [v \in Invs |-> IF v = "A" THEN s ELSE Idle]

Init ==
    /\ baseUrl = DefaultBaseUrl
    /\ inv \in {Alone(s) : s \in UsersCalls(QuietCallbacks) \union PagesCalls}
    /\ post = PostIdle
    /\ scan = ScanIdle

Next ==
    \E v \in Invs :
        \/ UsersLoop(v)
        \/ UsersFetchResolved(v)
        \/ CooldownElapsed(v)
        \/ DelayElapsed(v)
        \/ PagesLoop(v)
        \/ PagesFetchResolved(v)

Spec == Init /\ [][Next]_vars

(***************************************************************************)
(* The same parseMultipleUsers call made twice against the same transport  *)
(* behaviour: A without a callback, then B with a callback that returns a  *)
(* value.                                                                  *)
(***************************************************************************)
WithCallback(s, callback) == [s EXCEPT !.options.onProgress = callback]

Twice(s, callback) == [v \in Invs |-> IF v = "A" THEN s ELSE WithCallback(s, callback)]

InitObserve ==
    /\ baseUrl = DefaultBaseUrl
    /\ inv \in {Twice(s, callback) : s \in UsersCalls({"null"}),
                                     callback \in QuietCallbacks \ {"null"}}
    /\ post = PostIdle
    /\ scan = ScanIdle

Turn(v) == v = "A" \/ inv["A"].pc \in {"done", "rejected"}

NextObserve ==
    \E v \in Invs :
        \/ Turn(v) /\ UsersLoop(v)
        \/ Turn(v) /\ UsersFetchResolved(v)
        \/ Turn(v) /\ CooldownElapsed(v)
        \/ Turn(v) /\ DelayElapsed(v)

SpecObserve == InitObserve /\ [][NextObserve]_vars

(***************************************************************************)
(* parseMultipleUsers called with a callback, where every fetch resolves   *)
(* or fails and every timer fires: a step that can be taken is taken.      *)
(***************************************************************************)
InitUsers ==
    /\ baseUrl = DefaultBaseUrl
    /\ inv \in {Alone(s) : s \in UsersCalls({"returnsUndefined"})}
    /\ post = PostIdle
    /\ scan = ScanIdle

NextUsers ==
    \E v \in Invs :
        \/ UsersLoop(v)
        \/ UsersFetchResolved(v)
        \/ CooldownElapsed(v)
        \/ DelayElapsed(v)

FairSpec == InitUsers /\ [][NextUsers]_vars /\ WF_vars(NextUsers)

(***************************************************************************)
(* parseMultipleUsers called with a callback that may throw: at each event *)
(* it either returns or throws.                                            *)
(***************************************************************************)
InitThrows ==
    /\ baseUrl = DefaultBaseUrl
    /\ inv \in {Alone(s) : s \in UsersCalls({"throws"})}
    /\ post = PostIdle
    /\ scan = ScanIdle

SpecThrows == InitThrows /\ [][NextUsers]_vars

(***************************************************************************)
(* Two parseMultipleUsers invocations in progress on the same parser, on   *)
(* disjoint target lists: the event loop runs a step of either one.        *)
(***************************************************************************)
SharedOptions == [retryCount : 0..MaxRetry, delay : {DefaultDelay}, onProgress : {"returnsUndefined"}]

CallsOn(names, n, o) ==
    UNION {{NewCall("users", us, o, tr) : tr \in [1..Len(us) -> 0..(o.retryCount + 1)]}
           : us \in SeqsUpTo(names, n) \ {<<>>}}

Both(a, b) == [v \in Invs |-> IF v = "A" THEN a ELSE b]

InitInterleave ==
    /\ baseUrl = DefaultBaseUrl
    /\ inv \in UNION {{Both(a, b) : a \in CallsOn({"Livid"}, MaxTargets, o),
                                    b \in CallsOn({"acros"}, 1, o)}
                      : o \in SharedOptions}
    /\ post = PostIdle
    /\ scan = ScanIdle

SpecInterleave == InitInterleave /\ [][NextUsers]_vars

(***************************************************************************)
(* setBaseUrl and getBaseUrl, and the operations called on a parser whose  *)
(* base URL the caller changes now and then: before a call, or while the   *)
(* call is in progress (between two of its awaits).                        *)
(***************************************************************************)
\* parser.setBaseUrl('https://global.v2ex.co') in the test of the batch operation
OtherBaseUrl == "https://global.v2ex.co"

BaseUrls == {DefaultBaseUrl, OtherBaseUrl}

GetBaseUrl == baseUrl

SetBaseUrl(b) ==
    /\ baseUrl' = b
    /\ UNCHANGED <<inv, post, scan>>

\* createUserUrls: usernames.map(username => `${this.baseUrl}/member/${username}`)
CreateUserUrls(base, usernames) ==
    [k \in 1..Len(usernames) |-> [base |-> base, path |-> "member", id |-> usernames[k]]]

NothingCalled == post.pc = "idle" /\ \A v \in Invs : inv[v].op = "idle"

PlainOptions == [retryCount : {1}, delay : {0}, onProgress : {"null"}]

CallParseMultipleUsers(v) ==
    /\ NothingCalled
    /\ \E o \in PlainOptions : \E call \in CallsOn(Usernames, MaxTargets, o) :
          inv' = [inv EXCEPT ![v] = call]
    /\ UNCHANGED <<baseUrl, post, scan>>

\* parseMultipleUsersByUrls: parseMultiplePages(this.createUserUrls(usernames), options)
CallParseMultipleUsersByUrls(v) ==
    /\ NothingCalled
    /\ \E us \in SeqsUpTo(Usernames, MaxTargets) \ {<<>>} : \E tr \in [1..Len(us) -> 0..1] :
          inv' = [inv EXCEPT ![v] = NewCall("pages", CreateUserUrls(baseUrl, us), Idle.options, tr)]
    /\ UNCHANGED <<baseUrl, post, scan>>

\* parsePost on a thread whose pages show no reply.
CallParsePost ==
    /\ NothingCalled
    /\ \E mode \in {"multi", "single"}, postId \in PostIds : post' = NewPost(mode, baseUrl, postId, 0)
    /\ UNCHANGED <<baseUrl, inv, scan>>

InitBase ==
    /\ baseUrl = DefaultBaseUrl
    /\ inv = [v \in Invs |-> Idle]
    /\ post = PostIdle
    /\ scan = ScanIdle

NextBase ==
    \/ \E b \in BaseUrls : SetBaseUrl(b)
    \/ CallParseMultipleUsers("A")
    \/ CallParseMultipleUsersByUrls("A")
    \/ CallParsePost
    \/ UsersLoop("A")
    \/ UsersFetchResolved("A")
    \/ CooldownElapsed("A")
    \/ PagesLoop("A")
    \/ PagesFetchResolved("A")
    \/ FirstPageResolved
    \/ FirstPageRejected
    \/ LaterPageResolved
    \/ LaterPageRejected
    \/ PaceElapsed
    \/ SinglePageResolved
    \/ SinglePageRejected

SpecBase == InitBase /\ [][NextBase]_vars

(***************************************************************************)
(* Readings of the history, used to state the properties.                  *)
(***************************************************************************)
Tags(entries) == [j \in 1..Len(entries) |-> entries[j].tag]

Events(s) == LET Test(e) == e.kind = "event" IN SelectSeq(s.trace, Test)

\* The tags of the per-target progress events reported for the target at index.
EventsOf(s, index) ==
    LET Test(e) == e.kind = "event" /\ e.tag # "complete" /\ e.index = index
    IN Tags(SelectSeq(s.trace, Test))

Fetches(s) == LET Test(e) == e.kind = "fetch" IN SelectSeq(s.trace, Test)

\* The number of attempts on the target at index that have failed.
FailedOn(s, index) ==
    LET Test(e) == e.kind = "resolved" /\ e.tag = "failed" /\ e.index = index
    IN Len(SelectSeq(s.trace, Test))

SucceededOn(s, index) ==
    \E j \in 1..Len(s.trace) :
        s.trace[j].kind = "resolved" /\ s.trace[j].tag = "ok" /\ s.trace[j].index = index

Repeat(x, n) == [j \in 1..n |-> x]

TargetOf(s, outcome) == IF s.op = "users" THEN outcome.username ELSE outcome.url

Running(s) == s.op \in {"users", "pages"}

Done(s) == Running(s) /\ s.pc = "done"

\* Whether the environment lets the target at index succeed within the attempts made.
Succeeds(s, index) ==
    IF s.op = "users" THEN s.transport[index] <= s.options.retryCount
    ELSE s.transport[index] = 0 /\ s.targets[index].path \in {"member", "t"}

NoFetchAfterSuccess(s) ==
    \A a \in 1..Len(s.trace) : \A b \in 1..Len(s.trace) :
        (a < b /\ s.trace[a].kind = "resolved" /\ s.trace[a].tag = "ok")
            => ~IsFetchOf(s.trace[b], s.trace[a].index)

HasFailureOutcome(s, k) == k <= Len(s.results) /\ ~s.results[k].success

Terminal(s, index) == IF SucceededOn(s, index) THEN "success" ELSE "error"

RetryEvents(s, index) ==
    LET Test(e) == e.kind = "event" /\ e.tag = "retry" /\ e.index = index
    IN Len(SelectSeq(s.trace, Test))

UsersWithCallback(v) == inv[v].op = "users" /\ HasCallback(inv[v])

CompleteEvents(s) ==
    LET Test(e) == e.kind = "event" /\ e.tag = "complete" IN SelectSeq(s.trace, Test)

CompleteIsLast(s) ==
    /\ Len(CompleteEvents(s)) <= 1
    /\ \A j \in 1..Len(s.trace) :
          (s.trace[j].kind = "event" /\ s.trace[j].tag = "complete") => j = Len(s.trace)
    /\ Done(s) =>
          /\ Len(CompleteEvents(s)) = 1
          /\ CompleteEvents(s)[1].info
                = <<Count(s.returned, TRUE), Count(s.returned, FALSE)>>
          /\ CompleteEvents(s)[1].info[1] + CompleteEvents(s)[1].info[2] = Len(s.targets)
          /\ \A k \in 1..Len(s.targets) : Len(EventsOf(s, k)) >= 2

IsPrefix(a, b) == Len(a) <= Len(b) /\ \A j \in 1..Len(a) : a[j] = b[j]

RECURSIVE Flatten(_)
Flatten(pages) ==
    IF pages = <<>> THEN <<>> ELSE Head(pages).replies \o Flatten(Tail(pages))

Ascending(pages) ==
    \A j \in 1..Len(pages) : \A k \in 1..Len(pages) : j < k => pages[j].page < pages[k].page

MultiDone == post.mode = "multi" /\ post.pc = "done"

IsDelayWait(e) == e.kind = "wait" /\ e.tag = "delay"

\* The targets (by index) after which the invocation waited for options.delay.
DelayIndices(s) ==
    LET waits == SelectSeq(s.trace, IsDelayWait) IN [j \in 1..Len(waits) |-> waits[j].index]

\* The number of pacing waits due once the invocation is where it is.
DelaysDue(s) ==
    IF s.pc = "delay" THEN s.i + 1
    ELSE IF s.i < Len(s.targets) THEN s.i
    ELSE IF Len(s.targets) > 0 THEN Len(s.targets) - 1 ELSE 0

\* Whether the entry closes a target: its terminal event, or without a callback
\* the end of its last attempt.
ClosesTarget(s, e, index) ==
    /\ e.index = index
    /\ IF HasCallback(s) THEN e.kind = "event" /\ e.tag \in {"success", "error"}
       ELSE e.kind = "resolved"

\* Whether the entry opens a target: its start event, or without a callback its first fetch.
OpensTarget(s, e, index) ==
    /\ e.index = index
    /\ IF HasCallback(s) THEN e.kind = "event" /\ e.tag = "start" ELSE e.kind = "fetch"

\* The fetches and their ends, in the order they happened.
Transfers(s) ==
    LET Test(e) == e.kind \in {"fetch", "resolved"} IN SelectSeq(s.trace, Test)

\* The invocation as it was called, and the same call run alone to its end
\* (with a callback that returns).
Start(s) == NewCall(s.op, s.targets, s.options, s.transport)

StepAlone(s, base) ==
    CASE s.pc = "loop" -> UsersIteration(s, base, FALSE)
      [] s.pc = "fetch" -> UsersResolved(s, base, FALSE, FALSE)
      [] s.pc = "cooldown" -> WhileHead(s, base)
      [] s.pc = "delay" -> ForNext(s)

RECURSIVE RunAlone(_, _)
RunAlone(s, base) ==
    IF s.pc \in {"done", "rejected"} THEN s ELSE RunAlone(StepAlone(s, base), base)

InProgress(s) == s.op = "users" /\ s.pc \notin {"done", "rejected"} /\ Len(s.trace) > 0

\* The entries a step adds to the history of an invocation.
Added(v) == SubSeq(inv'[v].trace, Len(inv[v].trace) + 1, Len(inv'[v].trace))

\* What a step does with URLs while the base URL is b: the ones it builds from
\* this.baseUrl begin with b, the ones built earlier are used as they are.
BuildsOn(b) ==
    /\ \A v \in Invs : \A j \in 1..Len(Added(v)) :
          Added(v)[j].kind = "fetch" =>
              IF inv'[v].op = "users" THEN Added(v)[j].url.base = b
              ELSE Added(v)[j].url = inv[v].targets[Added(v)[j].index]
    /\ \A v \in Invs :
          IF inv[v].op = "idle"
          THEN \A k \in 1..Len(inv'[v].targets) :
                  inv'[v].op = "pages" => inv'[v].targets[k].base = b
          ELSE inv'[v].targets = inv[v].targets
    /\ \A v \in Invs : \A j \in 1..Len(inv[v].trace) : inv'[v].trace[j] = inv[v].trace[j]
    /\ IF post.pc = "idle" THEN post'.pc # "idle" => post'.url.base = b
       ELSE post'.url = post.url

\* A pagination control exposes a page number and a link to that page.
IsControl(c) == c.href /\ c.text # 0

PageNumbers(controls) == {controls[j].text : j \in {k \in 1..Len(controls) : IsControl(controls[k])}}

MaxShown(controls) ==
    IF PageNumbers(controls) = {} THEN 1
    ELSE CHOOSE n \in PageNumbers(controls) : \A m \in PageNumbers(controls) : m <= n

Crawling == post.mode = "multi" /\ post.pc \in {"page", "pace", "done"}

Range(list) == {list[j] : j \in 1..Len(list)}

NoDuplicates(list) ==
    \A a \in 1..Len(list) : \A b \in 1..Len(list) : a # b => list[a] # list[b]

\* The non-empty author ids of the replies.
AuthorsOf(replies) == {replies[j].author.id : j \in 1..Len(replies)} \ {""}

\* The offsets at which a maximal run of base58 characters starts, its length,
\* and the run.
RunStarts(text) ==
    {k \in 0..(Len(text) - 1) : IsBase58(text[k + 1]) /\ (k = 0 \/ ~IsBase58(text[k]))}

RunLength(text, k) ==
    Least({n \in 1..(Len(text) - k) : k + n = Len(text) \/ ~IsBase58(text[k + n + 1])})

RunAt(text, k) == Substring(text, k, k + RunLength(text, k))

Runs(text) == {RunAt(text, k) : k \in RunStarts(text)}

PurelyNumeric(run) == \A j \in 1..Len(run) : run[j] \in Digit

AddressLike(run) == Len(run) \in MinLength..MaxLength /\ ~PurelyNumeric(run)

\* The run of length n at offset k has a space or an edge of the text on either side.
BoundedBySpaces(text, k, n) ==
    /\ k = 0 \/ text[k] = " "
    /\ k + n = Len(text) \/ text[k + n + 1] = " "

\* A URL marker within the window before or the window after the run.
UrlContext(text, k, n) ==
    LET before == LowerText(Substring(text, Max0(k - Window), k))
        end == IF k + n + Window < Len(text) THEN k + n + Window ELSE Len(text)
        after == LowerText(Substring(text, k + n, end))
    IN \E marker \in UrlPatterns : PatternTest(marker, before) \/ PatternTest(marker, after)

Scanned == scan.pc = "done"

OkPages(pages) == LET Test(g) == g.ok IN SelectSeq(pages, Test)

\* The page numbers of the fetches a crawl has issued, in the order of the fetches.
PostFetches(p) ==
    LET Test(e) == e.kind = "fetch"
        fetches == SelectSeq(p.trace, Test)
    IN [j \in 1..Len(fetches) |-> fetches[j].page]

UpTo(n) == [j \in 1..n |-> j]

LaterPageHasFailed(p) == \E j \in 1..Len(p.pages) : p.pages[j].page >= 2 /\ ~p.pages[j].ok

(***************************************************************************)
(* C1: a batch operation returns exactly one outcome per target, and the   *)
(* outcome at position k is the outcome of the k-th target: it names that  *)
(* target and tells whether that target succeeded.  While the batch runs,  *)
(* the outcomes recorded so far are those of the first targets, in order.  *)
(***************************************************************************)
C1_OneOutcomePerTargetInOrder ==
    \A v \in Invs :
        LET s == inv[v] IN
        Running(s) =>
            /\ Len(s.results) <= Len(s.targets)
            /\ \A k \in 1..Len(s.results) :
                  /\ TargetOf(s, s.results[k]) = s.targets[k]
                  /\ s.results[k].success = Succeeds(s, k)
            /\ Done(s) => s.returned = s.results /\ Len(s.returned) = Len(s.targets)

C1_Witness ==
    LET s == inv["A"] IN
    /\ s.op = "users" /\ s.pc = "done" /\ Len(s.returned) = 2
    /\ s.targets[1] # s.targets[2]
    /\ ~s.returned[1].success /\ s.returned[2].success
    /\ FailedOn(s, 2) = 1

(***************************************************************************)
(* C2: a batch operation never rejects because a fetch or a parse failed:  *)
(* the failure becomes a failure outcome with the error's message, and     *)
(* every later target is still fetched.                                    *)
(***************************************************************************)
C2_FailuresBecomeOutcomes ==
    \A v \in Invs :
        LET s == inv[v] IN
        Running(s) =>
            /\ s.pc # "rejected"
            /\ \A k \in 1..Len(s.results) :
                  FailedOn(s, k) > 0 /\ ~SucceededOn(s, k) =>
                      /\ ~s.results[k].success
                      /\ s.results[k].error.msg \in {"transport", "unsupported"}
            /\ Done(s) => \A k \in 1..Len(s.targets) :
                  /\ AttemptsOn(s, k) >= 1
                  /\ ~Succeeds(s, k) => k <= Len(s.returned) /\ ~s.returned[k].success

C2_Witness ==
    LET s == inv["A"] IN
    /\ s.op = "pages" /\ s.pc = "done" /\ Len(s.returned) = 2
    /\ ~s.returned[1].success /\ s.returned[1].error.msg = "unsupported"
    /\ s.returned[2].success

(***************************************************************************)
(* C3: with retryCount = r, parseMultipleUsers attempts a target at most   *)
(* r + 1 times, makes no attempt on it after one of its attempts           *)
(* succeeded, and records a failure outcome for it exactly when r + 1 of   *)
(* its attempts have failed.                                               *)
(***************************************************************************)
C3_BoundedAttempts ==
    \A v \in Invs :
        LET s == inv[v] IN
        s.op = "users" =>
            /\ NoFetchAfterSuccess(s)
            /\ \A k \in 1..Len(s.targets) :
                  /\ AttemptsOn(s, k) <= s.options.retryCount + 1
                  /\ HasFailureOutcome(s, k) <=> FailedOn(s, k) = s.options.retryCount + 1

C3_Witness ==
    LET s == inv["A"] IN
    /\ s.op = "users" /\ s.pc = "done" /\ s.options.retryCount = 1
    /\ Len(s.targets) = 2
    /\ AttemptsOn(s, 1) = 2 /\ HasFailureOutcome(s, 1)
    /\ AttemptsOn(s, 2) = 2 /\ SucceededOn(s, 2)

(***************************************************************************)
(* C4: with an onProgress callback, the events reported for a target are   *)
(* one start, one retry per failed attempt that another attempt follows,   *)
(* then one terminal event: success if an attempt succeeded, error if      *)
(* every attempt failed.  Two failures then a success with retryCount = 2  *)
(* give start, retry, retry, success.                                      *)
(***************************************************************************)
C4_EventOrder ==
    \A v \in Invs :
        LET s == inv[v] IN
        (s.op = "users" /\ HasCallback(s)) =>
            /\ \A k \in 1..Len(s.results) :
                  EventsOf(s, k)
                      = <<"start">> \o Repeat("retry", AttemptsOn(s, k) - 1) \o <<Terminal(s, k)>>
            /\ \A k \in 1..Len(s.results) :
                  (s.options.retryCount = 2 /\ s.transport[k] = 2) =>
                      EventsOf(s, k) = <<"start", "retry", "retry", "success">>
            /\ \A k \in (Len(s.results) + 1)..Len(s.targets) :
                  /\ Len(EventsOf(s, k)) <= AttemptsOn(s, k) + 1
                  /\ \A j \in 1..Len(EventsOf(s, k)) :
                        EventsOf(s, k)[j] = (IF j = 1 THEN "start" ELSE "retry")

C4_Witness ==
    LET s == inv["A"] IN
    /\ s.op = "users" /\ s.pc = "done" /\ HasCallback(s)
    /\ s.options.retryCount = 2 /\ Len(s.targets) >= 1 /\ s.transport[1] = 2
    /\ EventsOf(s, 1) = <<"start", "retry", "retry", "success">>
    /\ s.returned[1].success

(***************************************************************************)
(* C5 as claimed: the success outcome of a target carries                  *)
(* retryAttempts = k, the number of its attempts that failed before.       *)
(***************************************************************************)
C5_SuccessCarriesRetryAttempts ==
    \A v \in Invs :
        LET s == inv[v] IN
        s.op = "users" =>
            \A k \in 1..Len(s.results) :
                s.results[k].success =>
                    /\ "retryAttempts" \in DOMAIN s.results[k]
                    /\ s.results[k].retryAttempts = FailedOn(s, k)

(***************************************************************************)
(* C5 amended: a success outcome carries username, success and data and    *)
(* no retryAttempts field.  The k <= retryCount failures before it show    *)
(* in the retryAttempts counter, which is k once the outcome is recorded,  *)
(* and in the k retry events; only failure outcomes carry retryAttempts.   *)
(***************************************************************************)
C5_SuccessOutcomeHasNoRetryAttempts ==
    \A v \in Invs :
        LET s == inv[v] IN
        s.op = "users" =>
            \A k \in 1..Len(s.results) :
                IF s.results[k].success
                THEN /\ DOMAIN s.results[k] = {"username", "success", "data"}
                     /\ FailedOn(s, k) <= s.options.retryCount
                     /\ k = s.i + 1 => s.retryAttempts = FailedOn(s, k)
                     /\ HasCallback(s) => RetryEvents(s, k) = FailedOn(s, k)
                ELSE "retryAttempts" \in DOMAIN s.results[k]

C5_Witness ==
    LET s == inv["A"] IN
    /\ s.op = "users" /\ s.pc = "delay" /\ s.options.retryCount = 2
    /\ s.i = 0 /\ Len(s.results) = 1 /\ s.results[1].success
    /\ FailedOn(s, 1) = 2 /\ s.retryAttempts = 2
    /\ "retryAttempts" \notin DOMAIN s.results[1]

(***************************************************************************)
(* C6: as every fetch resolves or fails, a parseMultipleUsers run with a   *)
(* callback eventually returns; it emits the complete event once, as the   *)
(* last thing it does (also for an empty list), and the counts in it are   *)
(* the numbers of success and of failure outcomes returned, which add up   *)
(* to the number of targets.                                               *)
(***************************************************************************)
C6_EventuallyComplete ==
    \A v \in Invs :
        /\ UsersWithCallback(v) ~> Done(inv[v])
        /\ [](UsersWithCallback(v) => CompleteIsLast(inv[v]))

C6_Witness ==
    LET s == inv["A"] IN
    /\ UsersWithCallback("A") /\ Done(s) /\ Len(s.targets) = 2
    /\ s.trace[Len(s.trace)].tag = "complete"
    /\ s.trace[Len(s.trace)].info = <<1, 1>>

(***************************************************************************)
(* C7: the callback only observes.  The call with a callback issues the    *)
(* same fetches and returns the same outcomes as the call without one,     *)
(* whatever the callback returns.                                          *)
(***************************************************************************)
C7_CallbackOnlyObserves ==
    LET a == inv["A"]
        b == inv["B"]
    IN (a.op = "users" /\ b.op = "users" /\ a.pc = "done") =>
          /\ b.pc # "rejected"
          /\ IsPrefix(Fetches(b), Fetches(a))
          /\ IsPrefix(b.results, a.returned)
          /\ b.pc = "done" => Fetches(b) = Fetches(a) /\ b.returned = a.returned

C7_Witness ==
    LET a == inv["A"]
        b == inv["B"]
    IN /\ a.pc = "done" /\ b.pc = "done" /\ ~HasCallback(a)
       /\ b.options.onProgress = "returnsFalse"
       /\ Len(a.targets) = 2 /\ Len(Fetches(b)) >= 3
       /\ ~b.returned[1].success /\ b.returned[2].success
       /\ Len(Events(b)) >= 6

(***************************************************************************)
(* C8: the replies parseMultiPagePost returns are the replies assembled    *)
(* from page 1, then those of page 2, 3, ... in ascending page order, each *)
(* page's in their order on the page.  Merging only appends: the records   *)
(* are those assembled from the pages, unchanged, and the replies of       *)
(* page 1 stay in front.                                                   *)
(***************************************************************************)
C8_RepliesArePagesInOrder ==
    (post.mode = "multi" /\ post.pc \in {"page", "pace", "done"}) =>
        /\ Ascending(post.pages) /\ post.pages[1].page = 1
        /\ IsPrefix(post.pages[1].replies, post.postInfo.replies)
        /\ post.pc # "done" =>
              /\ post.postInfo.replies = post.pages[1].replies
              /\ post.allReplies = Flatten(Tail(post.pages))
        /\ post.pc = "done" =>
              /\ post.result.replies = Flatten(post.pages)
              /\ {post.pages[j].page : j \in 1..Len(post.pages)}
                    = 1..post.pagination.totalPages

C8_Witness ==
    /\ MultiDone /\ post.pagination.totalPages = 3 /\ Len(post.pages) = 3
    /\ \A j \in 1..3 : post.pages[j].ok /\ Len(post.pages[j].replies) = 1
    /\ post.result.replies[1].id = "r1" /\ post.result.replies[1].content = "hi"
    /\ post.result.replies[2].id = "r2" /\ post.result.replies[2].content = ""
    /\ post.result.replies[3].id = "r3"

(***************************************************************************)
(* C9 as claimed: the replies parseMultiPagePost returns hold no two       *)
(* records with the same reply id, also when a reply id shows on two of    *)
(* the fetched pages.                                                      *)
(***************************************************************************)
C9_NoDuplicateReplyIds ==
    MultiDone =>
        \A a \in 1..Len(post.result.replies) : \A b \in 1..Len(post.result.replies) :
            a # b => post.result.replies[a].id # post.result.replies[b].id

(***************************************************************************)
(* C10: in every result of the single-page and of the multi-page           *)
(* operation, also when later pages failed, statistics.replyCount is the   *)
(* number of replies and statistics.totalFloors is replyCount + 1.         *)
(***************************************************************************)
C10_StatisticsMatchReplies ==
    post.pc = "done" =>
        /\ post.result.statistics.replyCount = Len(post.result.replies)
        /\ post.result.statistics.totalFloors = post.result.statistics.replyCount + 1

C10_Witness ==
    /\ MultiDone /\ post.pagination.totalPages = 3
    /\ ~post.pages[2].ok /\ post.pages[3].ok
    /\ post.budget = 0
    /\ post.result.statistics.replyCount = 2
    /\ post.result.statistics.totalFloors = 3

(***************************************************************************)
(* C11: when the fetch of a page p >= 2 of a parseMultiPagePost crawl has  *)
(* failed, the crawl is not rejected: it goes on to fetch every later      *)
(* page, returns a result, and the replies of the result are those of      *)
(* page 1 and of the later pages whose fetch succeeded, in page order.     *)
(***************************************************************************)
C11_FailedPageIsOmitted ==
    (post.mode = "multi" /\ LaterPageHasFailed(post)) =>
        /\ post.pc \in {"page", "pace", "done"}
        /\ post.pc # "done" => PostFetches(post) = UpTo(post.page)
        /\ post.pc = "done" =>
              /\ post.result.type = "post"
              /\ PostFetches(post) = UpTo(post.pagination.totalPages)
              /\ post.result.replies = Flatten(OkPages(post.pages))
              /\ post.pages[1].ok

C11_Witness ==
    /\ MultiDone /\ post.pagination.totalPages = 3
    /\ PostFetches(post) = <<1, 2, 3>>
    /\ post.pages[1].ok /\ ~post.pages[2].ok /\ post.pages[3].ok
    /\ Len(post.pages[1].replies) = 1 /\ Len(post.pages[3].replies) = 2
    /\ post.result.replies = post.pages[1].replies \o post.pages[3].replies

(***************************************************************************)
(* C12 as claimed: in a parseMultiPagePost crawl a pacing wait lies        *)
(* between every two successive page fetches (after page 1, after a later  *)
(* page, after a page whose fetch failed), and none follows the fetch of   *)
(* the last page.                                                          *)
(***************************************************************************)
C12_WaitBetweenSuccessiveFetches ==
    post.mode = "multi" =>
        /\ \A j \in 1..(Len(post.trace) - 1) :
              post.trace[j].kind = "fetch" => post.trace[j + 1].kind = "wait"
        /\ post.pc = "done" => post.trace[Len(post.trace)].kind = "fetch"

(***************************************************************************)
(* C13: with delay > 0, parseMultipleUsers waits once after every target   *)
(* but the last: N targets give max(N - 1, 0) pacing waits.  The wait      *)
(* after target k starts when the outcome of target k is recorded, right   *)
(* after the target was closed (terminal event), and the next thing the    *)
(* invocation does after it is to open target k + 1 (start event).         *)
(***************************************************************************)
C13_PacingWaits ==
    \A v \in Invs :
        LET s == inv[v] IN
        (s.op = "users" /\ s.options.delay > 0) =>
            /\ DelayIndices(s) = UpTo(DelaysDue(s))
            /\ Done(s) => Len(DelayIndices(s))
                             = (IF Len(s.targets) > 0 THEN Len(s.targets) - 1 ELSE 0)
            /\ s.pc = "delay" =>
                  /\ Len(s.results) = s.i + 1
                  /\ IsDelayWait(s.trace[Len(s.trace)])
            /\ \A j \in 1..Len(s.trace) :
                  IsDelayWait(s.trace[j]) =>
                      /\ s.trace[j].index < Len(s.targets)
                      /\ j > 1 /\ ClosesTarget(s, s.trace[j - 1], s.trace[j].index)
                      /\ \A a \in 1..(j - 1) : s.trace[a].index <= s.trace[j].index
                      /\ j < Len(s.trace) => OpensTarget(s, s.trace[j + 1], s.trace[j].index + 1)

C13_Witness ==
    LET s == inv["A"] IN
    /\ s.op = "users" /\ s.pc = "done" /\ s.options.delay > 0 /\ HasCallback(s)
    /\ Len(s.targets) = 2 /\ DelayIndices(s) = <<1>>
    /\ ~s.returned[1].success /\ s.returned[2].success

(***************************************************************************)
(* C14: a parseMultipleUsers invocation has at most one fetch in flight:   *)
(* a fetch is issued only when the one before it has ended.  Whatever the  *)
(* invocation does for target k + 1 (an attempt, a progress event) it does *)
(* when the outcomes of the targets 1..k are recorded, and the targets are *)
(* taken in the order of the list.                                         *)
(***************************************************************************)
C14_OneFetchAtATime ==
    \A v \in Invs :
        LET s == inv[v]
            t == Transfers(s)
        IN s.op = "users" =>
            /\ \A j \in 1..Len(t) :
                  /\ t[j].kind = (IF j % 2 = 1 THEN "fetch" ELSE "resolved")
                  /\ j % 2 = 0 => t[j].index = t[j - 1].index /\ t[j].url = t[j - 1].url
            /\ (s.pc = "fetch") <=> (Len(t) % 2 = 1)
            /\ (s.pc = "fetch") <=> (s.inflight # NoUrl)
            /\ \A j \in 1..Len(s.trace) : s.trace[j].index <= Len(s.results) + 1
            /\ \A a \in 1..Len(s.trace) : \A b \in 1..Len(s.trace) :
                  a < b => s.trace[a].index <= s.trace[b].index

C14_Witness ==
    LET s == inv["A"] IN
    /\ s.op = "users" /\ s.pc = "fetch" /\ s.i = 1 /\ Len(s.results) = 1
    /\ AttemptsOn(s, 1) = 2 /\ AttemptsOn(s, 2) = 2
    /\ Len(Transfers(s)) = 7 /\ s.inflight.id = s.targets[2]

(***************************************************************************)
(* C15: two parseMultipleUsers invocations on disjoint target lists whose  *)
(* steps interleave on one parser do not affect each other.  What each has *)
(* done and recorded so far is the beginning of what the same call does    *)
(* when it runs alone against the same transport behaviour, and it returns *)
(* the outcomes of that run: same targets, order, success flags, errors    *)
(* and numbers of attempts.                                                *)
(***************************************************************************)
C15_InterleavedRunsAreIndependent ==
    \A v \in Invs :
        LET s == inv[v]
            alone == RunAlone(Start(s), DefaultBaseUrl)
        IN s.op = "users" =>
            /\ s.pc # "rejected" /\ alone.pc = "done"
            /\ IsPrefix(s.results, alone.returned)
            /\ IsPrefix(s.trace, alone.trace)
            /\ s.pc = "done" =>
                  /\ s.returned = alone.returned
                  /\ \A k \in 1..Len(s.targets) : AttemptsOn(s, k) = AttemptsOn(alone, k)

C15_Witness ==
    LET a == inv["A"]
        b == inv["B"]
    IN /\ InProgress(a) /\ InProgress(b)
       /\ \A j \in 1..Len(a.targets) : \A k \in 1..Len(b.targets) : a.targets[j] # b.targets[k]
       /\ Len(a.targets) = 2 /\ Len(a.results) = 1 /\ ~a.results[1].success
       /\ a.pc = "fetch" /\ a.i = 1
       /\ b.pc = "cooldown" /\ FailedOn(b, 1) = 2

C17_UnsupportedKindWhateverTransport ==
    \A v \in Invs :
        LET s == inv[v] IN
        s.op = "pages" =>
            \A k \in 1..Len(s.results) :
                s.targets[k].path \notin {"member", "t"} =>
                    /\ ~s.results[k].success
                    /\ s.results[k].error.msg = "unsupported"
                    /\ AttemptsOn(s, k) = 1

(***************************************************************************)
(* C18: once page 1 of a crawl is parsed, the total page count is the      *)
(* largest page number a pagination control of page 1 shows, and 1 when    *)
(* page 1 has no pagination control.  It is computed from page 1 only:     *)
(* no later page revises it, the crawl fetches the pages up to it, and the *)
(* result reports it.                                                      *)
(***************************************************************************)
C18_TotalPagesIsMaxShown ==
    /\ [](Crawling =>
            /\ post.pagination.totalPages = MaxShown(post.controls)
            /\ \A j \in 1..Len(PostFetches(post)) :
                  PostFetches(post)[j] <= MaxShown(post.controls)
            /\ post.pc = "done" =>
                  /\ post.result.pagination.totalPages = MaxShown(post.controls)
                  /\ post.result.statistics.totalPages = MaxShown(post.controls)
                  /\ PostFetches(post) = UpTo(MaxShown(post.controls)))
    /\ [][Crawling => post'.pagination = post.pagination]_vars

C18_Witness ==
    /\ MultiDone
    /\ post.controls = PageLinks(3) \o PageLinks(3)
    /\ post.result.pagination.totalPages = 3
    /\ PostFetches(post) = <<1, 2, 3>>
    /\ \A j \in 1..3 : post.pages[j].ok

(***************************************************************************)
(* C19: the replyUserIds parseMultiPagePost returns hold no id twice, and  *)
(* they are the ids of the list page 1 exposed together with the non-empty *)
(* author ids of the merged replies, and no other id.                      *)
(***************************************************************************)
C19_ReplyUserIdsAreTheUnion ==
    MultiDone =>
        /\ NoDuplicates(post.result.replyUserIds)
        /\ Range(post.result.replyUserIds)
              = Range(post.exposed) \union AuthorsOf(post.result.replies)

C19_Witness ==
    /\ MultiDone
    /\ post.exposed = <<"carol", "alice", "carol">>
    /\ Len(post.pages) = 2 /\ post.pages[2].ok
    /\ AuthorsOf(post.pages[1].replies) = {"alice"}
    /\ AuthorsOf(post.pages[2].replies) = {"bob"}
    /\ Len(post.result.replies) = 3
    /\ post.result.replyUserIds = <<"carol", "alice", "bob">>

(***************************************************************************)
(* C20: every address extractSolanaAddressesWithBoundary returns is a      *)
(* maximal run of base58 characters of the text, 32 to 44 characters long  *)
(* and not purely numeric.  A run of 45 or more characters yields nothing  *)
(* (a part of it is returned only where the text also holds that part as a *)
(* run of its own), so a text whose runs are all longer gives no address.  *)
(* A run of 32 to 44 characters, not purely numeric, with a space or an    *)
(* edge of the text on either side and no URL marker in the windows        *)
(* around it, is returned.                                                 *)
(***************************************************************************)
C20_AddressesAreBoundedRuns ==
    Scanned =>
        LET text == scan.text
            found == Range(scan.addresses)
        IN /\ NoDuplicates(scan.addresses)
           /\ \A address \in found : address \in Runs(text) /\ AddressLike(address)
           /\ (\A run \in Runs(text) : Len(run) > MaxLength) => found = {}
           /\ \A k \in RunStarts(text) :
                 (/\ AddressLike(RunAt(text, k))
                  /\ BoundedBySpaces(text, k, RunLength(text, k))
                  /\ ~UrlContext(text, k, RunLength(text, k)))
                     => RunAt(text, k) \in found

C20_Witness ==
    /\ Scanned
    /\ scan.text = Rep("A", MaxLength + 1) \o <<" ">> \o Rep("B", MaxLength)
    /\ scan.addresses = <<Rep("B", MaxLength)>>

\* The offsets where a transaction or explorer link starts: http:// or https://,
\* then, before the next whitespace, a path with /tx/, /transaction/,
\* /confirmTransaction/ or /txs/.
LinkSchemes == {<<"h", "t", "t", "p", ":", "/", "/">>, <<"h", "t", "t", "p", "s", ":", "/", "/">>}

LinkSegments ==
    {<<"/", "t", "x", "/">>,
     <<"/", "t", "r", "a", "n", "s", "a", "c", "t", "i", "o", "n", "/">>,
     <<"/", "c", "o", "n", "f", "i", "r", "m", "T", "r", "a", "n", "s", "a", "c", "t", "i", "o", "n", "/">>,
     <<"/", "t", "x", "s", "/">>}

TxLinks(text) ==
    {p \in 0..(Len(text) - 1) :
        \E scheme \in LinkSchemes :
            /\ HasAt(text, p, scheme)
            /\ \E k \in (p + Len(scheme))..TokenEnd(text, p) : \E segment \in LinkSegments :
                  HasAt(text, k, segment) /\ k + Len(segment) <= TokenEnd(text, p)}

\* The n characters at offset k lie within a link.
InLink(text, k, n) ==
    \E p \in TxLinks(text) : p <= k /\ k + n <= TokenEnd(text, p)

\* A run of valid length within a link, whose characters the text holds
\* nowhere outside of links.
LinkRun(text, k) ==
    LET n == RunLength(text, k)
    IN /\ n \in MinLength..MaxLength
       /\ InLink(text, k, n)
       /\ \A q \in 0..(Len(text) - n) : HasAt(text, q, RunAt(text, k)) => InLink(text, q, n)

OnPage == scan.pc = "page"

(***************************************************************************)
(* C21: a run of 32 to 44 base58 characters that is part of a transaction  *)
(* or explorer link (an http or https URL with /tx/, /transaction/,        *)
(* /confirmTransaction/ or /txs/ in it) is returned neither by             *)
(* extractSolanaAddress (from the page text) nor by                        *)
(* extractSolanaAddressesFromText.                                         *)
(***************************************************************************)
C21_LinkRunsAreNeverReturned ==
    OnPage =>
        \A k \in RunStarts(scan.text) :
            LinkRun(scan.text, k) =>
                /\ scan.reply.done => RunAt(scan.text, k) \notin Range(scan.reply.solanaAddresses)
                /\ (scan.profile.done /\ scan.script = <<>>) =>
                       scan.profile.solanaAddress # RunAt(scan.text, k)

\* Whether the n characters at offset k of the text are label.sol, the label a
\* non-empty run of letters, digits, underscores and hyphens, with whitespace or
\* an edge of the text on either side.
IsDomainAt(text, k, n) ==
    /\ n > Len(DotSol) /\ k + n <= Len(text)
    /\ \A j \in 1..(n - Len(DotSol)) : text[k + j] \in LabelChars
    /\ Substring(text, k + n - Len(DotSol), k + n) = DotSol
    /\ k = 0 \/ IsSpace(text[k])
    /\ k + n = Len(text) \/ IsSpace(text[k + n + 1])

DomainsOf(text) ==
    {Substring(text, kn[1], kn[1] + kn[2]) :
        kn \in {c \in (0..Len(text)) \X (1..Len(text)) : IsDomainAt(text, c[1], c[2])}}

\* The first place where the text holds the word as a domain.
FirstDomainAt(text, word) ==
    Least({k \in 0..(Len(text) - Len(word)) : HasAt(text, k, word) /\ IsDomainAt(text, k, Len(word))})

Answered == scan.pc = "answered"

(***************************************************************************)
(* C22: extractSolanaDomainsFromText returns, without duplicates and in    *)
(* the order of their first occurrences, exactly the substrings label.sol  *)
(* of the text whose label is a non-empty run of letters, digits,          *)
(* underscores and hyphens and which have whitespace or an edge of the     *)
(* text on either side; a .sol that further non-whitespace characters      *)
(* follow is not matched.                                                  *)
(***************************************************************************)
C22_DomainsAreTheBoundedLabels ==
    Answered =>
        LET text == scan.text
            domains == scan.domains
        IN /\ NoDuplicates(domains)
           /\ Range(domains) = DomainsOf(text)
           /\ \A i, j \in 1..Len(domains) :
                 i < j => FirstDomainAt(text, domains[i]) < FirstDomainAt(text, domains[j])
           /\ (\A k \in 0..(Len(text) - Len(DotSol)) :
                  HasAt(text, k, DotSol) =>
                      k + Len(DotSol) < Len(text) /\ ~IsSpace(text[k + Len(DotSol) + 1]))
                 => domains = <<>>

C22_Witness ==
    /\ Answered
    /\ scan.text = <<"9", ".", "s", "o", "l", "\n", "a", ".", "s", "o", "l", " ", "9", ".", "s", "o", "l", "\n">>
    /\ scan.domains = <<<<"9", ".", "s", "o", "l">>, <<"a", ".", "s", "o", "l">>>>

\* A tag, or one of the five entities, within the text.
HasTag(text) == \E p \in 0..(Len(text) - 1) : text[p + 1] = "<" /\ \E k \in (p + 2)..Len(text) : text[k] = ">"

Entities == {Entity[e] : e \in DOMAIN Entity}

HasEntity(text) == \E entity \in Entities : \E p \in 0..(Len(text) - 1) : HasAt(text, p, entity)

NormalizedTwice == scan.pc = "twice"

(***************************************************************************)
(* C23: the normalization of a fragment is idempotent: applied to its own  *)
(* result it returns that result unchanged, whatever the fragment.         *)
(***************************************************************************)
C23_NormalizationIsIdempotent == NormalizedTwice => scan.again = scan.normalized

(***************************************************************************)
(* C23, amended: applied to a result that holds no tag and none of the     *)
(* five entities, the normalization returns that result unchanged.         *)
(***************************************************************************)
C23_IdempotentOnPlainResults ==
    (NormalizedTwice /\ ~HasTag(scan.normalized) /\ ~HasEntity(scan.normalized))
        => scan.again = scan.normalized

C23_Witness ==
    /\ NormalizedTwice
    /\ scan.text = <<"&", "n", "b", "s", "p", ";", "x", "<", "B", "R", " ", "/", ">">>
    /\ scan.normalized = <<"x">>
    /\ scan.again = <<"x">>

\* What follows the ampersand in the other four entities.
Tails == {<<"n", "b", "s", "p", ";">>, <<"l", "t", ";">>, <<"g", "t", ";">>, <<"q", "u", "o", "t", ";">>}

(***************************************************************************)
(* C24: the normalization decodes &amp; after the other four entities, so  *)
(* nothing is unescaped twice: for X among nbsp, lt, gt and quot the       *)
(* fragment &amp;X; becomes the text &X;, not the character X stands for.  *)
(***************************************************************************)
C24_EscapedEntitiesAreUnescapedOnce ==
    \A tail \in Tails :
        (scan.pc \in {"once", "twice"} /\ scan.text = Entity.amp \o tail)
            => scan.normalized = <<"&">> \o tail

(***************************************************************************)
(* C25: a failure outcome of parseMultipleUsers holds success = false, the *)
(* error of the target's last failed attempt, and in retryAttempts the     *)
(* number of retries made for the target: the attempts after the first,    *)
(* the retry events reported for it, retryCount.                           *)
(***************************************************************************)
C25_FailureOutcomeCountsRetries ==
    \A v \in Invs :
        LET s == inv[v] IN
        s.op = "users" =>
            \A k \in 1..Len(s.results) :
                ~s.results[k].success =>
                    /\ s.results[k].error.attempt = AttemptsOn(s, k)
                    /\ s.results[k].retryAttempts = AttemptsOn(s, k) - 1
                    /\ s.results[k].retryAttempts = s.options.retryCount
                    /\ HasCallback(s) => s.results[k].retryAttempts = RetryEvents(s, k)

\* The literals of the adjacency check.
Adjacent ==
    {<<"/", "t", "x", "/">>, <<"t", "x", "/">>,
     <<"/", "a", "d", "d", "r", "e", "s", "s", "/">>, <<"a", "d", "d", "r", "e", "s", "s", "/">>}

\* One of the literals ends right before offset k.
PrecededByLiteral(text, k) ==
    \E lit \in Adjacent : k >= Len(lit) /\ HasAt(text, k - Len(lit), lit)

(***************************************************************************)
(* C26: a candidate that /tx/, tx/, /address/ or address/ immediately      *)
(* precedes is discarded wherever it stands in the text, also without any  *)
(* other URL marker in the window around it: a run of valid length that    *)
(* the text holds only behind such a literal is not returned.              *)
(***************************************************************************)
C26_AdjacentLiteralDiscards ==
    Scanned =>
        \A k \in RunStarts(scan.text) :
            (/\ AddressLike(RunAt(scan.text, k))
             /\ \A other \in RunStarts(scan.text) :
                   RunAt(scan.text, other) = RunAt(scan.text, k) => PrecededByLiteral(scan.text, other))
                => RunAt(scan.text, k) \notin Range(scan.addresses)

(***************************************************************************)
(* C27: the two call sites recognize alike.  For the same text, the        *)
(* address extractSolanaAddress takes from the page text is the first      *)
(* address extractSolanaAddressesFromText returns, and either finds an     *)
(* address only if the other does.                                         *)
(***************************************************************************)
C27_CallSitesAgree ==
    (OnPage /\ scan.profile.done /\ scan.reply.done /\ scan.script = <<>>) =>
        /\ scan.profile.solanaAddress = <<>> <=> scan.reply.solanaAddresses = <<>>
        /\ scan.reply.solanaAddresses # <<>> =>
               scan.profile.solanaAddress = scan.reply.solanaAddresses[1]

\* The number of targets the invocation has started on: its start events.
Started(s) ==
    LET Test(e) == e.kind = "event" /\ e.tag = "start" IN Len(SelectSeq(s.trace, Test))

Distinct(list) == \A i, j \in 1..Len(list) : list[i] = list[j] => i = j

(***************************************************************************)
(* C28: whatever event the callback throws at, parseMultipleUsers records  *)
(* at most one outcome per target: never more outcomes than targets        *)
(* started, and (the targets being distinct) no success outcome and        *)
(* failure outcome for the same target.                                    *)
(***************************************************************************)
C28_OneOutcomePerTargetAlsoWhenThrowing ==
    \A v \in Invs :
        LET s == inv[v] IN
        s.op = "users" =>
            /\ Len(s.results) <= Started(s)
            /\ Distinct(s.targets) =>
                   \A j, k \in 1..Len(s.results) :
                       (s.results[j].success /\ ~s.results[k].success)
                           => s.results[j].username # s.results[k].username

FirstPageHasFailed(p) == p.pages # <<>> /\ p.pages[1].page = 1 /\ ~p.pages[1].ok

(***************************************************************************)
(* C29: when the fetch of page 1 fails, parseMultiPagePost rejects: it has *)
(* fetched page 1 only, fetches nothing more and returns nothing, no       *)
(* partial result either.  Nothing else rejects the crawl: a failed page   *)
(* 2..totalPages is left out and the crawl goes on to its result.          *)
(***************************************************************************)
C29_FirstPageFailureRejects ==
    post.mode = "multi" =>
        /\ FirstPageHasFailed(post) =>
               /\ post.pc = "rejected"
               /\ PostFetches(post) = <<1>>
               /\ post.pages = <<[page |-> 1, ok |-> FALSE, replies |-> <<>>]>>
               /\ post.result = NoPost
        /\ post.pc = "rejected" => FirstPageHasFailed(post)
        /\ LaterPageHasFailed(post) => post.pc # "rejected" /\ post.pages[1].ok

C29_Witness ==
    /\ post.mode = "multi" /\ post.pc = "rejected"
    /\ FirstPageHasFailed(post)
    /\ PostFetches(post) = <<1>>

\* Every fetch the invocation has issued went to the base URL of its first fetch,
\* which parseMultipleUsers issues before it first yields.
OneBase(s) ==
    \A j \in 1..Len(Fetches(s)) : Fetches(s)[j].url.base = Fetches(s)[1].url.base

(***************************************************************************)
(* C30: every fetch of one parseMultipleUsers invocation, retries          *)
(* included, goes to the base URL that was set when the invocation         *)
(* started, also when setBaseUrl is called while the batch is in progress; *)
(* and a parseMultiPagePost crawl keeps the thread URL it started with for *)
(* all its pages.                                                          *)
(***************************************************************************)
C30_OneBaseUrlPerInvocation ==
    [][/\ \A v \in Invs : inv'[v].op = "users" => OneBase(inv'[v])
       /\ post.pc # "idle" => post'.url = post.url]_vars

====
